---- MODULE Spec2Model ----
(***************************************************************************)
(* The two HTTP gateways of the repository (src/scalar_docs.py and         *)
(* src/api_server_with_scalar.py) as one state machine: a request arrives, *)
(* the router picks a handler, the handler issues its upstream calls, the  *)
(* upstream answers (or the connection fails), the handler answers the     *)
(* caller.  One request is in flight at a time.  (Specification Spec.)     *)
(*                                                                         *)
(* The schema augmentation of the two gateways as a function applied to a  *)
(* document again and again (specification AugmentSpec), and the tool      *)
(* adapters of src/mcp_tools.py, src/mcp_tools_v2.py, src/perplexity_tool.py*)
(* and src/perplexity_tool_sync.py, which run in the agent's process, as a *)
(* state machine of one tool call at a time (specification ToolSpec).      *)
(*                                                                         *)
(* The main program of a gateway (the launcher of the upstream, the serving*)
(* loop with its tasks on one event loop, the cleanup) is specification    *)
(* ServerSpec; the handler of GET /api/list-agents of src/scalar_docs.py,  *)
(* which loads and inspects each application's agent, is AgentsSpec.       *)
(***************************************************************************)
EXTENDS Integers, Sequences, FiniteSets, TLC

VARIABLES
    variant,     \* which gateway file is the running process
    pc,          \* position of the request in flight: "idle", "ma_session", "ma_run", "done"
    handler,     \* the handler the router dispatched the request to
    req,         \* the inbound request
    session_id,  \* message_agent's local variable session_id
    net,         \* whether the upstream accepts connections: "up" or "refused"
    calls,       \* the upstream calls issued for the request in flight, in order
    upstream,    \* the upstream's answers to those calls, in order
    resp,        \* what the caller receives
    served,      \* how many requests the process has answered before this one
    doc,         \* AugmentSpec: the schema document, or the exception of the last pass
    passes,      \* AugmentSpec: how many times the augmentation was applied
    tool,        \* ToolSpec: the adapter instance and the arguments of the call
    tpc,         \* ToolSpec: position of the tool call in flight
    spawned,     \* ToolSpec: the child processes spawned during the call, in order
    orphans,     \* ToolSpec: children of earlier calls that are still running
    posts,       \* ToolSpec: the HTTP requests sent during the call, in order
    returned,    \* ToolSpec: what the tool call returned or raised
    lpc,         \* ServerSpec: position of the serving process's main program
    adk,         \* ServerSpec: the upstream child process of the launcher
    ending,      \* ServerSpec: how the serving loop ended
    mainlog,     \* ServerSpec: what the main program has done, in order
    tasks,       \* ServerSpec: the requests being handled on the event loop
    blocked,     \* ServerSpec: the task whose blocking call holds the event loop
    lapc,        \* AgentsSpec: position of GET /api/list-agents
    app_names,   \* AgentsSpec: the application names the upstream answered
    mcp_data,    \* AgentsSpec: the providers of the configuration file, in file order
    loaded,      \* AgentsSpec: what loading each application's agent.py yielded
    agents,      \* AgentsSpec: the entries built so far
    listed       \* AgentsSpec: the answer of GET /api/list-agents

gateway == <<variant, pc, handler, req, session_id, net, calls, upstream, resp, served>>
augment == <<doc, passes>>
tools == <<tool, tpc, spawned, orphans, posts, returned>>
server == <<lpc, adk, ending, mainlog, tasks, blocked>>
listing == <<lapc, app_names, mcp_data, loaded, agents, listed>>
vars == <<gateway, augment, tools, server, listing>>

\* Largest number of requests answered before the one that is followed.
MaxServed == 1

\* Largest number of events in an upstream run response.
MaxEvents == 2

\* Largest number of items in the content list a child process answers with.
MaxContent == 2

(***************************************************************************)
(* JSON values (and Python's None) are tagged records.                     *)
(***************************************************************************)
JNull == [t |-> "null"]
JStr(s) == [t |-> "str", v |-> s]
JList(s) == [t |-> "list", v |-> s]
JObj(f) == [t |-> "obj", v |-> f]
JTrue == [t |-> "bool", v |-> TRUE]
EmptyDict == JObj(<<>>)
\* A response body that is not JSON: response.json() raises on it.
NotJson == [t |-> "notjson"]

\* Python truthiness (`if not request.session_id`, `part["text"]`).
Truthy(x) ==
    CASE x.t = "null" -> FALSE
      [] x.t = "str" -> x.v # ""
      [] x.t = "list" -> Len(x.v) > 0
      [] x.t = "obj" -> DOMAIN x.v # {}

\* The result of evaluating a Python expression: a value, or a raised exception.
\* An exception carries its class, and str(e) as `detail`; an HTTPException also
\* carries its status_code.
Ok(v) == [ok |-> TRUE, val |-> v, exc |-> "none", status |-> 0, detail |-> <<>>]
Raise(cls) == [ok |-> FALSE, val |-> JNull, exc |-> cls, status |-> 0,
               detail |-> <<JStr(cls)>>]
RaiseHTTP(status, detail) ==
    [ok |-> FALSE, val |-> JNull, exc |-> "HTTPException", status |-> status,
     detail |-> detail]
Bind(r, F(_)) == IF r.ok THEN F(r.val) ELSE r

\* x.get(key, default)
PyGet(x, key, default) ==
    IF x.t = "obj"
    THEN Ok(IF key \in DOMAIN x.v THEN x.v[key] ELSE default)
    ELSE Raise("AttributeError")

\* x[0]
PyIndex0(x) ==
    CASE x.t = "list" -> IF Len(x.v) > 0 THEN Ok(x.v[1]) ELSE Raise("IndexError")
      [] x.t = "obj" -> IF 0 \in DOMAIN x.v THEN Ok(x.v[0]) ELSE Raise("KeyError")
      [] x.t = "null" -> Raise("TypeError")

\* Exception classes and their base class.
BaseOf(cls) ==
    CASE cls = "HTTPException" -> "Exception"
      [] cls = "ConnectionError" -> "RequestException"
      [] cls = "RequestsJSONDecodeError" -> "RequestException"
      [] cls = "RequestException" -> "Exception"
      [] cls = "ValueError" -> "Exception"
      [] cls = "AttributeError" -> "Exception"
      [] cls = "IndexError" -> "Exception"
      [] cls = "KeyError" -> "Exception"
      [] cls = "TypeError" -> "Exception"
      [] cls = "ValidationError" -> "Exception"
      [] cls = "JSONDecodeError" -> "ValueError"
      [] cls = "FileNotFoundError" -> "OSError"
      [] cls = "OSError" -> "Exception"
      [] cls = "ClientError" -> "Exception"
      [] cls = "Exception" -> "BaseException"
      [] OTHER -> "object"

RECURSIVE IsInstance(_, _)
IsInstance(cls, base) ==
    IF cls = base THEN TRUE
    ELSE IF cls \in {"object", "BaseException"} THEN FALSE
    ELSE IsInstance(BaseOf(cls), base)

\* str(e): starlette's HTTPException prints as "<status_code>: <detail>".
StrExc(e) ==
    IF e.exc = "HTTPException"
    THEN <<JStr(ToString(e.status)), JStr(": ")>> \o e.detail
    ELSE e.detail

(***************************************************************************)
(* The inputs: request bodies of POST /message-agent and the answers of    *)
(* the upstream server.                                                    *)
(***************************************************************************)
Variants == {"scalar_docs", "api_server"}

\* MessageAgentRequest bodies: message is required, the other fields optional.
MessageAgentBodies ==
    { JObj([message |-> JStr("hi")]),
      JObj([message |-> JStr("hi"), agent_name |-> JStr("a1")]),
      JObj([message |-> JStr("hi"), session_id |-> JStr("")]),
      JObj([message |-> JStr("hi"), session_id |-> JStr("S9")]),
      JObj([message |-> JStr("hi"), agent_name |-> JStr("a1"), session_id |-> JStr("S9")]),
      JObj([message |-> JStr("hi"), session_id |-> JNull, user_id |-> JStr("u1")]) }

\* An upstream answer: the connection fails, or a status and a body arrive.
ConnRefused == [net |-> "refused", status |-> 0, body |-> JNull]
Answer(status, body) == [net |-> "ok", status |-> status, body |-> body]

\* Statuses other than 200 the upstream may answer with.
OtherStatuses == {201, 404, 500}
ErrorAnswers == {ConnRefused} \cup {Answer(s, JStr("oops")) : s \in OtherStatuses}

SessionAnswers ==
    ErrorAnswers \cup
    { Answer(200, b) : b \in
        { JObj([id |-> JStr("S1")]),
          JObj([id |-> JStr("S2"), appName |-> JStr("a1")]),
          JObj([session_id |-> JStr("S1")]),
          JObj([id |-> JStr("")]),
          JObj([id |-> JNull]),
          EmptyDict,
          JList(<<>>),
          NotJson } }

TextPart(s) == JObj([text |-> JStr(s)])
CallPart == JObj([functionCall |-> JObj([name |-> JStr("search")])])
EventOf(parts) == JObj([content |-> JObj([parts |-> JList(parts), role |-> JStr("model")])])

\* The events of a run response: with and without content, parts and text.
EventSet ==
    { JObj([author |-> JStr("agent")]),
      JObj([content |-> JNull]),
      JObj([content |-> JObj([role |-> JStr("model")])]),
      EventOf(<<>>),
      EventOf(<<CallPart>>),
      EventOf(<<TextPart("")>>),
      EventOf(<<TextPart("hello")>>),
      EventOf(<<TextPart("bye")>>),
      EventOf(<<TextPart("No response")>>),
      EventOf(<<CallPart, TextPart("hello")>>),
      EventOf(<<TextPart(""), TextPart("bye")>>),
      EventOf(<<TextPart("hello"), TextPart("bye")>>) }

RECURSIVE SeqsUpTo(_, _)
SeqsUpTo(S, n) ==
    IF n = 0 THEN {<<>>}
    ELSE LET shorter == SeqsUpTo(S, n - 1)
         IN  shorter \cup {Append(q, x) : q \in shorter, x \in S}

EventLists == {JList(q) : q \in SeqsUpTo(EventSet, MaxEvents)}

\* Run responses shaped as an object with "candidates" instead of an event list.
CandidateBodies ==
    { EmptyDict,
      JObj([candidates |-> JList(<<>>)]),
      JObj([candidates |-> JList(<<EmptyDict>>)]),
      JObj([candidates |-> JList(<<EventOf(<<TextPart("hello")>>)>>)]),
      JObj([candidates |-> JList(<<EventOf(<<JObj([text |-> JNull])>>)>>)]) }

RunBodies == EventLists \cup CandidateBodies \cup {JNull, NotJson}

RunAnswers == ErrorAnswers \cup {Answer(200, b) : b \in RunBodies}

\* response.json() on a body that is not JSON raises requests' JSONDecodeError,
\* a RequestException, from requests 2.27 on, and a plain ValueError before.
JsonErrorClasses == {"RequestsJSONDecodeError", "ValueError"}

ResponseJson(ans, jcls) == IF ans.body = NotJson THEN Raise(jcls) ELSE Ok(ans.body)

(***************************************************************************)
(* Routing.  A path is the sequence of its segments ("/api/agents" is      *)
(* <<"api", "agents">>, "/" is <<"">>).  A route is a path pattern, its     *)
(* methods and its handler; the routes of an application are tried in the  *)
(* order of their registration.                                            *)
(***************************************************************************)
Exact(segs, methods, h) == [kind |-> "exact", segs |-> segs, methods |-> methods, handler |-> h]
\* A pattern ending in {path:path}: the segments before it, then any rest.
Wildcard(segs, methods, h) == [kind |-> "prefix", segs |-> segs, methods |-> methods, handler |-> h]

\* The routes FastAPI() itself registers when the application is constructed.
BuiltinRoutes ==
    << Exact(<<"openapi.json">>, {"GET", "HEAD"}, "builtin_openapi"),
       Exact(<<"docs">>, {"GET", "HEAD"}, "builtin_docs"),
       Exact(<<"docs", "oauth2-redirect">>, {"GET", "HEAD"}, "builtin_docs"),
       Exact(<<"redoc">>, {"GET", "HEAD"}, "builtin_docs") >>

\* The decorators of each file, top to bottom.
Routes(v) ==
    IF v = "scalar_docs"
    THEN BuiltinRoutes \o
         << Exact(<<"">>, {"GET"}, "root"),
            Exact(<<"test-list-apps">>, {"GET"}, "test_list_apps"),
            Exact(<<"api", "agents">>, {"GET"}, "list_agents"),
            Exact(<<"api", "message-agent">>, {"POST"}, "message_agent"),
            Exact(<<"api", "list-agents">>, {"GET"}, "list_agents_detailed"),
            Exact(<<"openapi-proxy.json">>, {"GET"}, "openapi"),
            Exact(<<"scalar">>, {"GET"}, "scalar_html"),
            Wildcard(<<"api">>, {"GET", "POST", "PUT", "DELETE", "OPTIONS", "HEAD", "PATCH"},
                     "proxy_api") >>
    ELSE BuiltinRoutes \o
         << Exact(<<"agents">>, {"GET"}, "list_agents"),
            Exact(<<"message-agent">>, {"POST"}, "message_agent"),
            Wildcard(<<>>, {"GET", "POST", "PUT", "DELETE", "OPTIONS", "HEAD", "PATCH", "TRACE"},
                     "proxy"),
            Exact(<<"scalar">>, {"GET"}, "scalar_html"),
            Exact(<<"openapi.json">>, {"GET"}, "openapi") >>

PathMatches(route, path) ==
    IF route.kind = "exact" THEN path = route.segs
    ELSE /\ Len(path) > Len(route.segs)
         /\ SubSeq(path, 1, Len(route.segs)) = route.segs

\* The value of the {path:path} parameter.
PathParam(route, path) == SubSeq(path, Len(route.segs) + 1, Len(path))

\* The router: the first route whose path and method match; failing that, the
\* first route whose path alone matches answers 405; failing that, 404.
Dispatch(v, method, path) ==
    LET routes == Routes(v)
        full == {i \in DOMAIN routes :
                    PathMatches(routes[i], path) /\ method \in routes[i].methods}
        partial == {i \in DOMAIN routes : PathMatches(routes[i], path)}
        first(S) == CHOOSE i \in S : \A j \in S : i <= j
    IN  IF full # {}
        THEN [handler |-> routes[first(full)].handler,
              path |-> PathParam(routes[first(full)], path)]
        ELSE IF partial # {}
        THEN [handler |-> "method_not_allowed", path |-> <<>>]
        ELSE [handler |-> "not_found", path |-> <<>>]

(***************************************************************************)
(* POST /message-agent (message_agent of both files).                      *)
(***************************************************************************)
\* The default of MessageAgentRequest.agent_name.
DefaultAgent(v) ==
    IF v = "scalar_docs" THEN "revsup-candidate-qualify" ELSE "revsup_candidate_qualify"

\* The request model: the body's fields, with the defaults of the omitted ones.
MessageAgentRequest(v, body) ==
    [message |-> body.v["message"],
     agent_name |-> IF "agent_name" \in DOMAIN body.v THEN body.v["agent_name"]
                    ELSE JStr(DefaultAgent(v)),
     session_id |-> IF "session_id" \in DOMAIN body.v THEN body.v["session_id"] ELSE JNull,
     user_id |-> IF "user_id" \in DOMAIN body.v THEN body.v["user_id"]
                 ELSE JStr("default_user")]

\* requests.post(session_url)
CreateSessionCall(r) ==
    [op |-> "create_session", app |-> r.agent_name, user |-> r.user_id,
     session |-> JNull, message |-> JNull]

\* requests.post(run_url, json=run_payload)
RunCall(r, sid) ==
    [op |-> "run", app |-> r.agent_name, user |-> r.user_id,
     session |-> sid, message |-> r.message]

\* The body field the session identifier is read from.
SessionField(v) == IF v = "scalar_docs" THEN "id" ELSE "session_id"

\* From the answer of create-session to the local session_id, or to the exception
\* raised inside the try block.
SessionStepAnyStatus(v, ans, jcls) ==
    IF ans.net = "refused" THEN Raise("ConnectionError")
    ELSE LET sid == Bind(ResponseJson(ans, jcls), LAMBDA session_data:
                         PyGet(session_data, SessionField(v), JNull))
         IN  IF sid.ok THEN sid ELSE Ok(JNull)
SessionStep(v, ans, jcls) ==
    IF ans.net = "refused" THEN Raise("ConnectionError")
    ELSE IF ans.status # 200
    THEN RaiseHTTP(ans.status, <<JStr("Failed to create session: "), ans.body>>)
    ELSE Bind(ResponseJson(ans, jcls), LAMBDA session_data:
         Bind(PyGet(session_data, SessionField(v), JNull), LAMBDA sid:
              IF v = "scalar_docs" /\ ~Truthy(sid)
              THEN RaiseHTTP(500, <<JStr("Failed to get session ID from response: "),
                                    session_data>>)
              ELSE Ok(sid)))

\* scalar_docs: the inner loop over the parts of one event.
RECURSIVE ScanParts(_, _, _)
ScanParts(parts, i, agent_response) ==
    IF i > Len(parts) THEN agent_response
    ELSE LET part == parts[i]
         IN  IF "text" \in DOMAIN part.v /\ Truthy(part.v["text"])
             THEN part.v["text"]
             ELSE ScanParts(parts, i + 1, agent_response)

\* scalar_docs: the loop over reversed(response_data); i is the index of the event.
RECURSIVE ScanEvents(_, _, _)
ScanEvents(events, i, agent_response) ==
    IF i < 1 THEN Ok(agent_response)
    ELSE Bind(PyGet(events[i], "content", EmptyDict), LAMBDA content:
         Bind(PyGet(content, "parts", JList(<<>>)), LAMBDA parts:
              LET found == ScanParts(parts.v, 1, agent_response)
              IN  IF found # JStr("No response")
                  THEN Ok(found)
                  ELSE ScanEvents(events, i - 1, found)))

\* The text taken from the run response.
ExtractResponse(v, response_data) ==
    IF v = "scalar_docs"
    THEN IF response_data.t = "list" /\ Len(response_data.v) > 0
         THEN ScanEvents(response_data.v, Len(response_data.v), JStr("No response"))
         ELSE Ok(JStr("No response"))
    ELSE Bind(PyGet(response_data, "candidates", JList(<<EmptyDict>>)), LAMBDA cands:
         Bind(PyIndex0(cands), LAMBDA cand:
         Bind(PyGet(cand, "content", EmptyDict), LAMBDA content:
         Bind(PyGet(content, "parts", JList(<<EmptyDict>>)), LAMBDA parts:
         Bind(PyIndex0(parts), LAMBDA part:
              PyGet(part, "text", JStr("No response")))))))

\* MessageAgentResponse(response=..., session_id=..., agent_name=...): every
\* field is a required str.
MessageAgentResponse(agent_response, sid, agent_name) ==
    IF agent_response.t = "str" /\ sid.t = "str" /\ agent_name.t = "str"
    THEN Ok(JObj([response |-> agent_response, session_id |-> sid,
                  agent_name |-> agent_name]))
    ELSE Raise("ValidationError")

\* From the answer of run to the returned model, or to the exception raised
\* inside the try block.
RunStep(v, r, sid, ans, jcls) ==
    IF ans.net = "refused" THEN Raise("ConnectionError")
    ELSE IF ans.status # 200
    THEN RaiseHTTP(ans.status, <<JStr("Failed to send message: "), ans.body>>)
    ELSE Bind(ResponseJson(ans, jcls), LAMBDA response_data:
         Bind(ExtractResponse(v, response_data), LAMBDA agent_response:
              MessageAgentResponse(agent_response, sid, r.agent_name)))

\* The except clauses of message_agent, in order.
MessageAgentExcept(e) ==
    IF IsInstance(e.exc, "RequestException")
    THEN RaiseHTTP(503, <<JStr("ADK server connection error: ")>> \o StrExc(e))
    ELSE IF IsInstance(e.exc, "Exception")
    THEN RaiseHTTP(500, <<JStr("Internal error: ")>> \o StrExc(e))
    ELSE e

(***************************************************************************)
(* GET /agents (list_agents) and GET /api/agents (list_agents_simple).     *)
(***************************************************************************)
ListAnswers ==
    ErrorAnswers \cup
    {Answer(200, b) : b \in {JList(<<JStr("a1")>>), JList(<<>>), NotJson}}

\* The try block: the upstream body, or the exception raised.
ListAgentsStep(ans, jcls) ==
    IF ans.net = "refused" THEN Raise("ConnectionError")
    ELSE IF ans.status # 200
    THEN RaiseHTTP(ans.status, <<JStr("Failed to list agents: "), ans.body>>)
    ELSE ResponseJson(ans, jcls)

\* The only except clause: requests.exceptions.RequestException.
ListAgentsExcept(e) ==
    IF IsInstance(e.exc, "RequestException")
    THEN RaiseHTTP(503, <<JStr("ADK server connection error: ")>> \o StrExc(e))
    ELSE e

(***************************************************************************)
(* GET /openapi-proxy.json (openapi_proxy): the schema augmentation.       *)
(***************************************************************************)
\* x[key]
PyItem(x, key) ==
    IF x.t = "obj"
    THEN IF key \in DOMAIN x.v THEN Ok(x.v[key]) ELSE Raise("KeyError")
    ELSE Raise("TypeError")

\* The dictionary d after d[key] = val.
DictSet(d, key, val) ==
    JObj([k \in DOMAIN d.v \cup {key} |-> IF k = key THEN val ELSE d.v[k]])

\* x[key] = val
PySetItem(x, key, val) ==
    IF x.t = "obj" THEN Ok(DictSet(x, key, val)) ELSE Raise("TypeError")

\* key in x
PyIn(key, x) ==
    CASE x.t = "obj" -> Ok(key \in DOMAIN x.v)
      [] x.t = "list" -> Ok(JStr(key) \in {x.v[i] : i \in DOMAIN x.v})
      [] OTHER -> Raise("TypeError")

\* x[k1][k2] = val, as the dictionary x after the assignment: the other members
\* of x[k1] stay (the code never assigns a new dictionary to x[k1]).
PySetItem2Replacing(x, k1, k2, val) ==
    Bind(PyItem(x, k1), LAMBDA inner : PySetItem(x, k1, JObj(k2 :> val)))
PySetItem2(x, k1, k2, val) ==
    Bind(PyItem(x, k1), LAMBDA inner :
    Bind(PySetItem(inner, k2, val), LAMBDA inner2 :
         PySetItem(x, k1, inner2)))

\* The literals the augmentation writes.
InjectedTitle == JStr("Google ADK Agent API")
InjectedDescription == JStr("## Google Agent Development Kit API ...")
InjectedOperation(path) == JObj([injected |-> JStr(path)])
InjectedSchema(name) == JObj([type |-> JStr("object"), title |-> JStr(name)])

\* spec["info"]["description"] = """...""": the assigned value is the literal,
\* whatever description the document had.
AssignedDescriptionAppended(info, text) ==
    IF "description" \in DOMAIN info.v THEN JList(<<info.v["description"], text>>) ELSE text
AssignedDescription(info, text) == text

\* The four assignments to spec["paths"]["/list-apps"]["get"][...].
DeprecateListApps(spec) ==
    Bind(PyItem(spec, "paths"), LAMBDA paths :
    Bind(PyItem(paths, "/list-apps"), LAMBDA item :
    Bind(PyItem(item, "get"), LAMBDA get :
    Bind(PySetItem(get, "summary", JStr("[DEPRECATED] List Available Agent Applications")),
         LAMBDA g1 :
    Bind(PySetItem(g1, "description", JStr("**DEPRECATED: Use /list-agents instead ...")),
         LAMBDA g2 :
    Bind(PySetItem(g2, "tags", JList(<<JStr("Agent Management")>>)), LAMBDA g3 :
    Bind(PySetItem(g3, "deprecated", JTrue), LAMBDA g4 :
         Ok(DictSet(spec, "paths", DictSet(paths, "/list-apps", DictSet(item, "get", g4)))))))))))

\* openapi_proxy's edits of the fetched document, in the order of the code.
OpenapiProxyAugment(spec0) ==
    Bind(PySetItem2(spec0, "info", "title", InjectedTitle), LAMBDA s1 :
    Bind(PyItem(s1, "info"), LAMBDA info :
    Bind(PySetItem2(s1, "info", "description",
                    AssignedDescription(info, InjectedDescription)), LAMBDA s2 :
    Bind(PySetItem2(s2, "paths", "/list-agents", InjectedOperation("/list-agents")), LAMBDA s3 :
    Bind(PySetItem2(s3, "paths", "/agents", InjectedOperation("/agents")), LAMBDA s4 :
    Bind(PySetItem2(s4, "paths", "/message-agent", InjectedOperation("/message-agent")),
         LAMBDA s5 :
    Bind(PyIn("components", s5), LAMBDA hasc :
    Bind(IF hasc THEN Ok(s5) ELSE PySetItem(s5, "components", EmptyDict), LAMBDA s6 :
    Bind(PyItem(s6, "components"), LAMBDA comps :
    Bind(PyIn("schemas", comps), LAMBDA hass :
    Bind(IF hass THEN Ok(s6) ELSE PySetItem2(s6, "components", "schemas", EmptyDict),
         LAMBDA s7 :
    Bind(PyItem(s7, "components"), LAMBDA comps7 :
    Bind(PySetItem2(comps7, "schemas", "MessageAgentRequest",
                    InjectedSchema("MessageAgentRequest")), LAMBDA c8 :
    Bind(PySetItem2(c8, "schemas", "MessageAgentResponse",
                    InjectedSchema("MessageAgentResponse")), LAMBDA c9 :
    Bind(PySetItem(s7, "components", c9), LAMBDA s9 :
    Bind(PyItem(s9, "paths"), LAMBDA paths :
    Bind(PyIn("/list-apps", paths), LAMBDA haslegacy :
         IF haslegacy THEN DeprecateListApps(s9) ELSE Ok(s9))))))))))))))))))

\* The literals get_openapi (api_server_with_scalar.py) writes.
ExtensionTitle == JStr("Google ADK Agent API with Extensions")
ExtensionDescription == JStr("## Google Agent Development Kit API ... Key Features ...")
ExtensionOperation(path) == JObj([injected |-> JStr(path), by |-> JStr("get_openapi")])
ExtensionSchema(name) ==
    JObj([type |-> JStr("object"), title |-> JStr(name), by |-> JStr("get_openapi")])

\* get_openapi's edits of the fetched document, in the order of the code.
GetOpenapiAugment(spec0) ==
    Bind(PyIn("paths", spec0), LAMBDA hasp :
    Bind(IF hasp THEN Ok(spec0) ELSE PySetItem(spec0, "paths", EmptyDict), LAMBDA s1 :
    Bind(PySetItem2(s1, "paths", "/agents", ExtensionOperation("/agents")), LAMBDA s2 :
    Bind(PySetItem2(s2, "paths", "/message-agent", ExtensionOperation("/message-agent")),
         LAMBDA s3 :
    Bind(PyIn("components", s3), LAMBDA hasc :
    Bind(IF hasc THEN Ok(s3) ELSE PySetItem(s3, "components", EmptyDict), LAMBDA s4 :
    Bind(PyItem(s4, "components"), LAMBDA comps :
    Bind(PyIn("schemas", comps), LAMBDA hass :
    Bind(IF hass THEN Ok(s4) ELSE PySetItem2(s4, "components", "schemas", EmptyDict),
         LAMBDA s5 :
    Bind(PyItem(s5, "components"), LAMBDA comps5 :
    Bind(PySetItem2(comps5, "schemas", "MessageAgentRequest",
                    ExtensionSchema("MessageAgentRequest")), LAMBDA c6 :
    Bind(PySetItem2(c6, "schemas", "MessageAgentResponse",
                    ExtensionSchema("MessageAgentResponse")), LAMBDA c7 :
    Bind(PySetItem(s5, "components", c7), LAMBDA s7 :
    Bind(PySetItem2(s7, "info", "title", ExtensionTitle), LAMBDA s8 :
    Bind(PyItem(s8, "info"), LAMBDA info :
         PySetItem2(s8, "info", "description",
                    AssignedDescription(info, ExtensionDescription)))))))))))))))))

\* The augmentation of each gateway.
Augment(v, spec0) ==
    IF v = "scalar_docs" THEN OpenapiProxyAugment(spec0) ELSE GetOpenapiAugment(spec0)

SchemaDocs ==
    { JObj([info |-> JObj([title |-> JStr("FastAPI")]),
            paths |-> [t |-> "obj", v |-> [k \in {"/run"} |-> JObj([post |-> EmptyDict])]]]),
      JObj([info |-> JObj([title |-> JStr("FastAPI")]),
            paths |-> [t |-> "obj",
                       v |-> [k \in {"/list-apps"} |-> JObj([get |-> EmptyDict])]],
            components |-> JObj([schemas |-> JObj([Event |-> EmptyDict])])]),
      JObj([info |-> JObj([title |-> JStr("FastAPI")])]),
      JObj([paths |-> EmptyDict]),
      JObj([detail |-> JStr("Not Found")]),
      JList(<<>>),
      NotJson }

\* The status is not looked at: any answer's body is parsed.
SchemaAnswers ==
    {ConnRefused} \cup {Answer(200, d) : d \in SchemaDocs}
    \cup {Answer(404, JObj([detail |-> JStr("Not Found")]))}

\* The try block of openapi_proxy.
OpenapiProxyStep(ans, jcls) ==
    IF ans.net = "refused" THEN Raise("ConnectionError")
    ELSE Bind(ResponseJson(ans, jcls), LAMBDA spec : OpenapiProxyAugment(spec))

\* except Exception: return {"error": str(e)}
OpenapiProxyExcept(e) ==
    IF IsInstance(e.exc, "Exception")
    THEN Ok(JObj([error |-> StrExc(e)]))
    ELSE e

(***************************************************************************)
(* The wildcard routes: proxy (api_server_with_scalar.py) and proxy_api    *)
(* (scalar_docs.py).                                                       *)
(***************************************************************************)
Methods == {"GET", "POST", "TRACE"}

Paths ==
    { <<"">>, <<"agents">>, <<"message-agent">>, <<"scalar">>, <<"openapi.json">>,
      <<"openapi-proxy.json">>, <<"run">>, <<"api">>, <<"api", "agents">>,
      <<"api", "message-agent">>, <<"api", "run">>, <<"api", "apps", "a1">> }

\* Query strings, as sequences of <<name, value>>.
Queries == { <<>>, << <<"limit", "5">> >>, << <<"request", "x">> >> }

\* Header sets, as sets of <<name, value>> with lower-case names.
HeaderSets ==
    { { <<"host", "gateway:8080">> },
      { <<"host", "gateway:8080">>, <<"authorization", "Bearer t">> } }

Bodies == {"", "payload"}

\* headers = dict(request.headers); headers.pop("host", None)
PopHost(headers) == {h \in headers : h[1] # "host"}

\* The headers and bodies the upstream may answer a forwarded request with.
ProxyAnswers ==
    {ConnRefused} \cup
    { [net |-> "ok", status |-> st, body |-> JStr("upstream body"), headers |-> hs] :
        st \in {200, 302, 404},
        hs \in { { <<"content-type", "application/json">> },
                 { <<"location", "/elsewhere">> },
                 { <<"access-control-allow-origin", "https://app.example">> } } }

\* The headers proxy_api adds to every response; they replace upstream's.
CorsHeaders ==
    { <<"access-control-allow-origin", "*">>,
      <<"access-control-allow-methods", "GET, POST, PUT, DELETE, OPTIONS, HEAD, PATCH">>,
      <<"access-control-allow-headers", "*">> }

\* {**dict(response.headers), ...}: the later keys win.
MergeHeaders(base, over) ==
    {h \in base : \A o \in over : o[1] # h[1]} \cup over

\* The argument the framework binds to the handler's parameter `request`:
\* annotated with Request (proxy_api) it is the request object; without an
\* annotation (proxy) it is a required query parameter named "request".
HasQueryParam(query, name) == \E i \in DOMAIN query : query[i][1] = name
QueryParam(query, name) ==
    query[CHOOSE i \in DOMAIN query :
              query[i][1] = name /\ \A j \in DOMAIN query : query[j][1] = name => i <= j][2]
BoundRequest(v, r) ==
    IF v = "scalar_docs" THEN Ok([t |-> "Request"])
    ELSE IF HasQueryParam(r.query, "request")
    THEN Ok(JStr(QueryParam(r.query, "request")))
    ELSE Raise("RequestValidationError")

\* The outbound request of the proxy handlers: built from the inbound request
\* alone, by a client made for this one request (requests.request, and
\* httpx.AsyncClient() inside `async with`).
ProxyCallNumbered(r, path) ==
    [op |-> "proxy", method |-> r.method, path |-> path, query |-> r.query,
     headers |-> PopHost(r.headers) \cup
                     (IF served = 0 THEN {} ELSE {<<"x-request-number", ToString(served)>>}),
     body |-> r.body]
ProxyCall(r, path) ==
    [op |-> "proxy", method |-> r.method, path |-> path, query |-> r.query,
     headers |-> PopHost(r.headers), body |-> r.body]

\* Whether the HTTP client follows a redirect by itself: requests.request is
\* called with allow_redirects=False (proxy), httpx's client.request without
\* follow_redirects, whose default is False (proxy_api).
FollowRedirectsAlways(v) == TRUE
FollowRedirects(v) == FALSE

\* An answer the client would follow if it followed redirects, and the request
\* it would send next (to the answer's Location).
IsRedirect(ans) ==
    /\ ans.net = "ok"
    /\ ans.status \in 300..399
    /\ \E h \in ans.headers : h[1] = "location"
RedirectCall(call, ans) ==
    [call EXCEPT !.path = <<(CHOOSE h \in ans.headers : h[1] = "location")[2]>>]

(***************************************************************************)
(* What the caller receives.                                               *)
(***************************************************************************)
NoResp == [status |-> 0, detail |-> <<>>, body |-> JNull, headers |-> {}, exc |-> "none"]

\* The framework's answer to a handler's outcome: the returned value with status
\* 200, an HTTPException as its status and detail, a request that fails the
\* parameter validation as 422, any other exception unhandled (the server's
\* plain 500).
Respond(result) ==
    IF result.ok
    THEN [status |-> 200, detail |-> <<>>, body |-> result.val, headers |-> {},
          exc |-> "none"]
    ELSE IF result.exc = "HTTPException"
    THEN [status |-> result.status, detail |-> result.detail, body |-> JNull,
          headers |-> {}, exc |-> "none"]
    ELSE IF result.exc = "RequestValidationError"
    THEN [status |-> 422, detail |-> result.detail, body |-> JNull, headers |-> {},
          exc |-> "none"]
    ELSE [status |-> 500, detail |-> <<>>, body |-> JNull, headers |-> {},
          exc |-> result.exc]

\* What each proxy handler returns for an upstream answer.  proxy returns the
\* tuple ({"error": ...}, 500) on an exception, which is serialised as a JSON
\* array with status 200.
ProxyResponse(v, ans) ==
    IF v = "scalar_docs"
    THEN IF ans.net = "refused"
         THEN [status |-> 500, detail |-> <<>>,
               body |-> JObj([error |-> JStr("ConnectionError")]),
               headers |-> CorsHeaders, exc |-> "none"]
         ELSE [status |-> ans.status, detail |-> <<>>, body |-> ans.body,
               headers |-> MergeHeaders(ans.headers, CorsHeaders), exc |-> "none"]
    ELSE IF ans.net = "refused"
         THEN [status |-> 200, detail |-> <<>>,
               body |-> JList(<<JObj([error |-> JStr("ConnectionError")]),
                                [t |-> "num", v |-> 500]>>),
               headers |-> {}, exc |-> "none"]
         ELSE [status |-> ans.status, detail |-> <<>>, body |-> ans.body,
               headers |-> ans.headers, exc |-> "none"]

NoReq == [method |-> "", path |-> <<>>, query |-> <<>>, headers |-> {}, body |-> JNull]

\* No request is in flight.
GatewayIdle ==
    /\ pc = "idle"
    /\ handler = "none"
    /\ req = NoReq
    /\ session_id = JNull
    /\ net = "up"
    /\ calls = <<>>
    /\ upstream = <<>>
    /\ resp = NoResp
    /\ served = 0

\* No document is being augmented, no tool call is in flight.
NoTool == [module |-> "none"]
NoResult == [ok |-> TRUE, val |-> JNull, exc |-> "none", status |-> 0, detail |-> <<>>]
AugmentIdle == doc = Ok(JNull) /\ passes = 0
ToolIdle ==
    /\ tool = NoTool
    /\ tpc = "idle"
    /\ spawned = <<>>
    /\ orphans = {}
    /\ posts = <<>>
    /\ returned = NoResult

\* The serving process is not followed: its main program has not started.
MaxTasks == 2
NoTask == [handler |-> "none", st |-> "free"]
ServerIdle ==
    /\ lpc = "start"
    /\ adk = "none"
    /\ ending = "none"
    /\ mainlog = <<>>
    /\ tasks = [i \in 1..MaxTasks |-> NoTask]
    /\ blocked = 0

\* GET /api/list-agents is not being handled.
ListingIdle ==
    /\ lapc = "idle"
    /\ app_names = <<>>
    /\ mcp_data = <<>>
    /\ loaded = <<>>
    /\ agents = <<>>
    /\ listed = JNull

Init ==
    /\ variant \in Variants
    /\ GatewayIdle
    /\ AugmentIdle
    /\ ToolIdle
    /\ ServerIdle
    /\ ListingIdle

\* The answers the upstream can give now: none but a failed connection while it
\* refuses connections.
Nets == {"up", "refused"}
AnswersNow(answers) ==
    IF net = "refused" THEN {ConnRefused} ELSE answers \ {ConnRefused}

\* The handlers that read the request: message_agent its JSON body, the proxy
\* handlers the query string, the headers and the raw body.
RequestsFor(h, method, path) ==
    IF h = "message_agent"
    THEN { [method |-> method, path |-> path, query |-> <<>>,
            headers |-> {<<"host", "gateway:8080">>}, body |-> b] :
              b \in MessageAgentBodies }
    ELSE IF h \in {"proxy", "proxy_api"}
    THEN { [method |-> method, path |-> path, query |-> q, headers |-> hs,
            body |-> JStr(b)] : q \in Queries, hs \in HeaderSets, b \in Bodies }
    ELSE { [method |-> method, path |-> path, query |-> <<>>,
            headers |-> {<<"host", "gateway:8080">>}, body |-> JStr("")] }

\* A request arrives and the router picks its handler.
Receive ==
    /\ pc = "idle"
    /\ served <= MaxServed
    /\ \E method \in Methods, path \in Paths :
         LET h == Dispatch(variant, method, path).handler
         IN  /\ handler' = h
             /\ req' \in RequestsFor(h, method, path)
    /\ net' \in Nets
    /\ pc' = "routed"
    /\ UNCHANGED <<variant, session_id, calls, upstream, resp>>
    /\ UNCHANGED <<served, augment, tools, server, listing>>

\* The router's own answers, and the handlers that return without an upstream
\* call (scalar_html is dispatched to in scalar_docs.py only).
StaticResponse ==
    /\ pc = "routed"
    /\ handler \in {"not_found", "method_not_allowed", "root", "scalar_html",
                    "builtin_openapi", "builtin_docs"}
    /\ resp' = [NoResp EXCEPT !.status = CASE handler = "not_found" -> 404
                                           [] handler = "method_not_allowed" -> 405
                                           [] OTHER -> 200]
    /\ pc' = "done"
    /\ UNCHANGED <<variant, handler, req, session_id, net, calls, upstream>>
    /\ UNCHANGED <<served, augment, tools, server, listing>>

\* `if not request.session_id`: a session is created when none was supplied.
NeedsNewSessionAlways(r) == TRUE
NeedsNewSession(r) == ~Truthy(r.session_id)

\* message_agent up to its first upstream call.
MessageAgentBegin ==
    /\ pc = "routed" /\ handler = "message_agent"
    /\ LET r == MessageAgentRequest(variant, req.body)
       IN  IF NeedsNewSession(r)
           THEN /\ calls' = <<CreateSessionCall(r)>>
                /\ session_id' = JNull
                /\ pc' = "ma_session"
           ELSE /\ calls' = <<RunCall(r, r.session_id)>>
                /\ session_id' = r.session_id
                /\ pc' = "ma_run"
    /\ UNCHANGED <<variant, handler, req, net, upstream, resp>>
    /\ UNCHANGED <<served, augment, tools, server, listing>>

\* create-session has answered: message_agent fails, or goes on to the run call.
MessageAgentSession ==
    /\ pc = "ma_session"
    /\ \E ans \in AnswersNow(SessionAnswers), jcls \in JsonErrorClasses :
         LET r == MessageAgentRequest(variant, req.body)
             got == SessionStep(variant, ans, jcls)
         IN  /\ upstream' = Append(upstream, ans)
             /\ IF got.ok
                THEN /\ session_id' = got.val
                     /\ calls' = Append(calls, RunCall(r, got.val))
                     /\ pc' = "ma_run"
                     /\ net' \in Nets
                     /\ resp' = resp
                ELSE /\ resp' = Respond(MessageAgentExcept(got))
                     /\ pc' = "done"
                     /\ UNCHANGED <<session_id, net, calls>>
    /\ UNCHANGED <<variant, handler, req>>
    /\ UNCHANGED <<served, augment, tools, server, listing>>

\* run has answered: message_agent returns or fails.
MessageAgentRun ==
    /\ pc = "ma_run"
    /\ \E ans \in AnswersNow(RunAnswers), jcls \in JsonErrorClasses :
         LET r == MessageAgentRequest(variant, req.body)
             got == RunStep(variant, r, session_id, ans, jcls)
         IN  /\ upstream' = Append(upstream, ans)
             /\ resp' = Respond(IF got.ok THEN got ELSE MessageAgentExcept(got))
             /\ pc' = "done"
    /\ UNCHANGED <<variant, handler, req, session_id, net, calls>>
    /\ UNCHANGED <<served, augment, tools, server, listing>>

\* list_agents / list_agents_simple up to the upstream call.
ListAgentsBegin ==
    /\ pc = "routed" /\ handler = "list_agents"
    /\ calls' = <<[op |-> "list_agents"]>>
    /\ pc' = "la_wait"
    /\ UNCHANGED <<variant, handler, req, session_id, net, upstream, resp>>
    /\ UNCHANGED <<served, augment, tools, server, listing>>

\* list-agents has answered.
ListAgentsAnswer ==
    /\ pc = "la_wait"
    /\ \E ans \in AnswersNow(ListAnswers), jcls \in JsonErrorClasses :
         LET got == ListAgentsStep(ans, jcls)
         IN  /\ upstream' = Append(upstream, ans)
             /\ resp' = Respond(IF got.ok THEN got ELSE ListAgentsExcept(got))
    /\ pc' = "done"
    /\ UNCHANGED <<variant, handler, req, session_id, net, calls>>
    /\ UNCHANGED <<served, augment, tools, server, listing>>

\* openapi_proxy up to the upstream call.
OpenapiBegin ==
    /\ pc = "routed" /\ handler = "openapi"
    /\ calls' = <<[op |-> "openapi"]>>
    /\ pc' = "schema_wait"
    /\ UNCHANGED <<variant, handler, req, session_id, net, upstream, resp>>
    /\ UNCHANGED <<served, augment, tools, server, listing>>

\* The schema document has arrived, or the connection failed.
OpenapiAnswer ==
    /\ pc = "schema_wait"
    /\ \E ans \in AnswersNow(SchemaAnswers), jcls \in JsonErrorClasses :
         LET got == OpenapiProxyStep(ans, jcls)
         IN  /\ upstream' = Append(upstream, ans)
             /\ resp' = Respond(IF got.ok THEN got ELSE OpenapiProxyExcept(got))
    /\ pc' = "done"
    /\ UNCHANGED <<variant, handler, req, session_id, net, calls>>
    /\ UNCHANGED <<served, augment, tools, server, listing>>

\* proxy / proxy_api up to the outbound request: the parameters are bound, the
\* body and the headers are read from `request`, the request is sent.
ProxyBegin ==
    /\ pc = "routed" /\ handler \in {"proxy", "proxy_api"}
    /\ LET bound == BoundRequest(variant, req)
       IN  IF ~bound.ok
           THEN /\ resp' = Respond(bound)
                /\ pc' = "done"
                /\ calls' = calls
           ELSE IF bound.val.t # "Request"
           THEN \* request.body(), request.headers: a str has neither
                /\ resp' = Respond(Raise("AttributeError"))
                /\ pc' = "done"
                /\ calls' = calls
           ELSE /\ calls' = <<ProxyCall(req, Dispatch(variant, req.method, req.path).path)>>
                /\ pc' = "proxy_wait"
                /\ resp' = resp
    /\ UNCHANGED <<variant, handler, req, session_id, net, upstream>>
    /\ UNCHANGED <<served, augment, tools, server, listing>>

\* The upstream has answered the forwarded request, or the connection failed.
ProxyAnswer ==
    /\ pc = "proxy_wait"
    /\ \E ans \in AnswersNow(ProxyAnswers) :
         /\ upstream' = Append(upstream, ans)
         /\ IF FollowRedirects(variant) /\ IsRedirect(ans) /\ Len(calls) < 2
            THEN /\ calls' = Append(calls, RedirectCall(calls[Len(calls)], ans))
                 /\ pc' = "proxy_wait"
                 /\ resp' = resp
            ELSE /\ calls' = calls
                 /\ pc' = "done"
                 /\ resp' = ProxyResponse(variant, ans)
    /\ UNCHANGED <<variant, handler, req, session_id, net>>
    /\ UNCHANGED <<served, augment, tools, server, listing>>

\* The response is sent; the request's values are discarded.
Finish ==
    /\ pc = "done"
    /\ pc' = "idle"
    /\ handler' = "none"
    /\ req' = NoReq
    /\ session_id' = JNull
    /\ net' = "up"
    /\ calls' = <<>>
    /\ upstream' = <<>>
    /\ resp' = NoResp
    /\ served' = served + 1
    /\ UNCHANGED variant
    /\ UNCHANGED <<augment, tools, server, listing>>

Next ==
    \/ Receive
    \/ StaticResponse
    \/ MessageAgentBegin
    \/ MessageAgentSession
    \/ MessageAgentRun
    \/ ListAgentsBegin
    \/ ListAgentsAnswer
    \/ OpenapiBegin
    \/ OpenapiAnswer
    \/ ProxyBegin
    \/ ProxyAnswer
    \/ Finish

Spec == Init /\ [][Next]_vars

(***************************************************************************)
(* The schema augmentation applied to a document again and again.          *)
(***************************************************************************)
\* Largest number of applications of the augmentation to one document.
MaxPasses == 3

\* A member the document does not have.
Absent == [t |-> "absent"]

\* The upstream documents: with and without info, paths and components, with
\* the legacy /list-apps operation, and with keys the augmentation writes.
DocInfos ==
    { Absent,
      JObj([title |-> JStr("FastAPI")]),
      JObj([title |-> JStr("FastAPI"), description |-> JStr("upstream text")]) }
DocPaths ==
    { Absent,
      EmptyDict,
      JObj("/run" :> JObj([post |-> EmptyDict])),
      JObj("/list-apps" :> JObj([get |-> EmptyDict])),
      JObj("/list-apps" :> JObj([get |-> JObj([summary |-> JStr("List Apps"),
                                               tags |-> JList(<<JStr("default")>>)])])
           @@ "/agents" :> JObj([get |-> JObj([summary |-> JStr("upstream")])])),
      JObj("/list-apps" :> JObj([post |-> EmptyDict])),
      JObj("/list-agents" :> JObj([get |-> JObj([summary |-> JStr("upstream")])])) }
DocComponents ==
    { Absent,
      EmptyDict,
      JObj([schemas |-> JObj([Event |-> EmptyDict])]),
      JObj([schemas |-> JObj([MessageAgentRequest |-> JObj([type |-> JStr("string")])])]),
      JObj([securitySchemes |-> EmptyDict]) }

DocOf(i, p, c) ==
    LET f == [info |-> i, paths |-> p, components |-> c]
    IN  JObj([k \in {x \in DOMAIN f : f[x] # Absent} |-> f[k]])

AugmentDocs == {DocOf(i, p, c) : i \in DocInfos, p \in DocPaths, c \in DocComponents}

AugmentInit ==
    /\ variant \in Variants
    /\ GatewayIdle
    /\ ToolIdle
    /\ ServerIdle
    /\ ListingIdle
    /\ doc \in {Ok(d) : d \in AugmentDocs}
    /\ passes = 0

\* The try block of the schema handler runs on the document: the fetched one
\* first, then the document the previous pass returned.
ApplyAugment ==
    /\ passes < MaxPasses
    /\ doc.ok
    /\ LET got == Augment(variant, doc.val)
       IN  doc' = got
    /\ passes' = passes + 1
    /\ UNCHANGED <<gateway, tools, server, listing>>

AugmentNext == ApplyAugment

AugmentSpec == AugmentInit /\ [][AugmentNext]_vars

(***************************************************************************)
(* The tool adapters.  MCPTool (mcp_tools.py, mcp_tools_v2.py) spawns the   *)
(* configured command as a child process, writes one request to it and     *)
(* parses what it prints; the Perplexity tools (perplexity_tool.py,        *)
(* perplexity_tool_sync.py) post the query to the provider's HTTP API.     *)
(***************************************************************************)
McpModules == {"mcp_tools", "mcp_tools_v2"}
PerplexityModules == {"perplexity_tool", "perplexity_tool_sync"}

Range(q) == {q[i] : i \in DOMAIN q}

\* A formatted string (an f-string): the sequence of its pieces.
FStr(pieces) == [t |-> "fstr", v |-> pieces]
IsStr(x) == x.t \in {"str", "fstr"}

\* The provider entries of the configuration file: complete, without env,
\* without args, without command.
McpEntries ==
    { JObj([command |-> JStr("npx"), args |-> JList(<<JStr("server-perplexity-ask")>>),
            env |-> JObj([PERPLEXITY_API_KEY |-> JStr("k1")])]),
      JObj([command |-> JStr("npx"), args |-> JList(<<JStr("server-perplexity-ask")>>)]),
      JObj([command |-> JStr("npx"), env |-> JObj([PERPLEXITY_API_KEY |-> JStr("")])]),
      JObj([args |-> JList(<<JStr("server-perplexity-ask")>>)]) }

\* The configuration file at /root/google-agents/mcp_config.json: missing, not
\* JSON, or a JSON object with or without the member "mcps".
NoFile == [t |-> "nofile"]
ConfigFiles ==
    { NoFile, NotJson, EmptyDict, JObj([mcps |-> EmptyDict]) }
    \cup { JObj([mcps |-> JObj("perplexity-ask" :> e)]) : e \in McpEntries }
    \cup { JObj([mcps |-> JObj("other" :> e)]) : e \in McpEntries }

\* open(path) and json.load(f)
JsonLoadFile(file) ==
    CASE file = NoFile -> Raise("FileNotFoundError")
      [] file = NotJson -> Raise("JSONDecodeError")
      [] OTHER -> Ok(file)

\* MCPTool._load_config: the member "mcps", and {} after any exception.
LoadConfig(file) ==
    LET got == Bind(JsonLoadFile(file), LAMBDA config : PyGet(config, "mcps", EmptyDict))
    IN  IF got.ok THEN got.val ELSE EmptyDict

\* The arguments of a call: run(query, mcp_name="perplexity-ask"), and args of
\* run_async read with args.get('query', '') and args.get('mcp_name', ...).
ToolArgs ==
    { JObj([query |-> JStr(q)]) : q \in {"", "q"} }
    \cup { JObj([query |-> JStr("q"), mcp_name |-> JStr(n)]) :
              n \in {"perplexity-ask", "other", "unknown"} }

ArgQuery(args) == IF "query" \in DOMAIN args.v THEN args.v["query"] ELSE JStr("")
ArgMcpName(args) ==
    IF "mcp_name" \in DOMAIN args.v THEN args.v["mcp_name"] ELSE JStr("perplexity-ask")

\* `mcp_name not in self.mcp_configs`
NotConfiguredNever(mcp_name, mcp_configs) == FALSE
NotConfigured(mcp_name, mcp_configs) == mcp_name.v \notin DOMAIN mcp_configs.v

\* {"error": f"MCP '{mcp_name}' not configured"}
McpNotConfiguredError(mcp_name) ==
    JObj([error |-> FStr(<<JStr("MCP '"), mcp_name, JStr("' not configured")>>)])

\* cmd = [config['command']] + config['args']
McpCommand(config) ==
    Bind(PyItem(config, "command"), LAMBDA command :
    Bind(PyItem(config, "args"), LAMBDA args :
         Ok(JList(<<command>> \o args.v))))

\* mcp_request
McpRequest(query) ==
    JObj([jsonrpc |-> JStr("2.0"), method |-> JStr("tools/call"),
          name |-> JStr("perplexity_ask"), content |-> query, id |-> JStr("1")])

\* What a child prints to its stdout before it exits.
EmptyOutput == [t |-> "empty"]
ContentItems ==
    { JObj([type |-> JStr("text"), text |-> JStr("hi")]),
      JObj([type |-> JStr("text"), text |-> JStr("there")]),
      JObj([type |-> JStr("image"), data |-> JStr("...")]) }
ContentLists == {JList(q) : q \in SeqsUpTo(ContentItems, MaxContent)}
ChildOutputs ==
    { EmptyOutput, NotJson, JNull, JList(<<>>), EmptyDict,
      JObj([error |-> JObj([message |-> JStr("bad request")])]),
      JObj([result |-> JNull]),
      JObj([result |-> EmptyDict]),
      JObj([result |-> JObj([content |-> JStr("hi")])]),
      JObj([result |-> JObj([content |-> JList(<<JStr("hi")>>)])]) }
    \cup { JObj([result |-> JObj([content |-> c])]) : c \in ContentLists }

\* json.loads(stdout.decode())
JsonLoads(out) ==
    IF out \in {EmptyOutput, NotJson} THEN Raise("JSONDecodeError") ELSE Ok(out)

NoResponseFromMcp == JStr("No response from MCP")

\* The value returned for a text and for an exception caught by the try block:
\* mcp_tools.py wraps both in a dictionary, mcp_tools_v2.py returns strings.
McpResponse(module, text) ==
    IF module = "mcp_tools" THEN JObj([response |-> text]) ELSE text
McpExcept(module, e) ==
    IF IsInstance(e.exc, "Exception")
    THEN Ok(IF module = "mcp_tools"
            THEN JObj([error |-> FStr(<<JStr("MCP execution error: ")>> \o StrExc(e))])
            ELSE FStr(<<JStr("MCP execution error: ")>> \o StrExc(e)))
    ELSE e

\* The try block from the parsing of the child's output on.
McpParse(module, out) ==
    Bind(JsonLoads(out), LAMBDA response :
    Bind(PyIn("error", response), LAMBDA haserror :
         IF haserror
         THEN Bind(PyItem(response, "error"), LAMBDA err : Ok(JObj([error |-> err])))
         ELSE Bind(PyGet(response, "result", EmptyDict), LAMBDA res :
              Bind(PyGet(res, "content", JList(<<>>)), LAMBDA content :
                   IF Truthy(content) /\ content.t = "list"
                   THEN Bind(PyGet(content.v[1], "text", NoResponseFromMcp), LAMBDA text :
                             Ok(McpResponse(module, text)))
                   ELSE Ok(McpResponse(module, NoResponseFromMcp))))))

\* The environment variable PERPLEXITY_API_KEY: unset or set.
EnvKeys == {JStr(""), JStr("k2")}

\* PerplexitySearchTool._get_api_key (perplexity_tool.py): the key of the
\* configuration file, and the environment variable after any exception;
\* perplexity_tool_sync.py uses a literal.
GetApiKey(module, file, envkey) ==
    IF module = "perplexity_tool_sync" THEN JStr("pplx-literal")
    ELSE LET got ==
                 Bind(JsonLoadFile(file), LAMBDA config :
                 Bind(PyGet(config, "mcps", EmptyDict), LAMBDA mcps :
                 Bind(PyGet(mcps, "perplexity-ask", EmptyDict), LAMBDA entry :
                 Bind(PyGet(entry, "env", EmptyDict), LAMBDA env :
                      PyGet(env, "PERPLEXITY_API_KEY", JStr(""))))))
         IN  IF got.ok THEN got.val ELSE envkey

\* The entry points of each module: MCPTool.run / MCPTool.run_async, and for
\* the Perplexity modules the function-based and the class-based tool.
Entries(module) ==
    IF module \in McpModules THEN {"MCPTool"} ELSE {"function", "class"}

\* The checks before the outbound call: the string returned early, or None.
PerplexityChecks(t) ==
    IF ~(t.module = "perplexity_tool_sync" /\ t.entry = "function")
       /\ ~Truthy(ArgQuery(t.args))
    THEN JStr("Error: No search query provided")
    ELSE IF t.module = "perplexity_tool" /\ ~Truthy(t.api_key)
    THEN JStr("Error: No Perplexity API key configured")
    ELSE JNull

\* The request posted to the provider.
PerplexityPost(t) ==
    [url |-> "https://api.perplexity.ai/chat/completions",
     authorization |-> t.api_key, model |-> "sonar", query |-> ArgQuery(t.args)]

\* The provider's answers: a transport failure, 200 with a body, another status
\* with a text.
TransportError == [net |-> "error", status |-> 0, body |-> JNull]
Choice(message) == JObj([choices |-> JList(<<JObj([message |-> message])>>)])
PerplexityBodies ==
    { Choice(JObj([content |-> JStr("answer")])),
      Choice(JObj([content |-> JNull])),
      Choice(EmptyDict),
      JObj([choices |-> JList(<<EmptyDict>>)]),
      JObj([choices |-> JList(<<>>)]),
      EmptyDict,
      JList(<<>>),
      NotJson }
PerplexityAnswers ==
    {TransportError}
    \cup {Answer(200, b) : b \in PerplexityBodies}
    \cup {Answer(st, JStr(text)) : st \in {401, 429, 500}, text \in {"", "rate limited"}}

NoResponseFromPerplexity == JStr("No response from Perplexity")

\* f"Error: Perplexity API returned status {status}: {text}"
PerplexityErrorStringNoBody(status, text) ==
    FStr(<<JStr("Error: Perplexity API returned status "), JStr(ToString(status))>>)
PerplexityErrorString(status, text) ==
    FStr(<<JStr("Error: Perplexity API returned status "), JStr(ToString(status)),
           JStr(": "), text>>)

\* The try block of the outbound call, and its except clause.
PerplexityTry(ans) ==
    IF ans.net = "error" THEN Raise("ClientError")
    ELSE IF ans.status = 200
    THEN Bind(ResponseJson(ans, "JSONDecodeError"), LAMBDA data :
         Bind(PyGet(data, "choices", JList(<<EmptyDict>>)), LAMBDA choices :
         Bind(PyIndex0(choices), LAMBDA choice :
         Bind(PyGet(choice, "message", EmptyDict), LAMBDA message :
         Bind(PyGet(message, "content", NoResponseFromPerplexity), LAMBDA content :
              Ok(FStr(<<JStr("Search Results:"), content>>)))))))
    ELSE Ok(PerplexityErrorString(ans.status, ans.body))
PerplexityExcept(e) ==
    IF IsInstance(e.exc, "Exception")
    THEN Ok(FStr(<<JStr("Error searching: ")>> \o StrExc(e)))
    ELSE e

ToolModules == McpModules \cup PerplexityModules

ToolInit ==
    /\ variant \in Variants
    /\ GatewayIdle
    /\ AugmentIdle
    /\ ToolIdle
    /\ ServerIdle
    /\ ListingIdle

\* A tool is constructed (its configuration is loaded) and called; `config` is
\* the configuration file and the environment variable the process runs with.
ToolCall ==
    /\ tpc = "idle"
    /\ \E module \in ToolModules, file \in ConfigFiles, envkey \in EnvKeys,
          args \in ToolArgs :
         \E entry \in Entries(module) :
            tool' = [module |-> module, entry |-> entry,
                     mcp_configs |-> IF module \in McpModules THEN LoadConfig(file)
                                     ELSE JNull,
                     api_key |-> IF module \in PerplexityModules
                                 THEN GetApiKey(module, file, envkey) ELSE JNull,
                     config |-> [file |-> file, envkey |-> envkey],
                     args |-> args]
    /\ tpc' = "called"
    /\ UNCHANGED <<spawned, orphans, posts, returned>>
    /\ UNCHANGED <<gateway, augment, server, listing>>

\* The child of the call in flight.
Child(cmd, env, stdin) == [cmd |-> cmd, env |-> env, stdin |-> stdin,
                           state |-> "running", stdout |-> JNull]

\* MCPTool.run / run_async up to communicate(): the provider is looked up, the
\* command is built (outside the try block), the child is spawned (inside it).
McpBegin ==
    /\ tpc = "called" /\ tool.module \in McpModules
    /\ LET mcp_name == ArgMcpName(tool.args)
       IN  IF NotConfigured(mcp_name, tool.mcp_configs)
           THEN /\ returned' = Ok(McpNotConfiguredError(mcp_name))
                /\ tpc' = "returned"
                /\ spawned' = spawned
           ELSE LET cmd == Bind(PyItem(tool.mcp_configs, mcp_name.v), LAMBDA config :
                                McpCommand(config))
                IN  IF ~cmd.ok
                    THEN /\ returned' = cmd
                         /\ tpc' = "returned"
                         /\ spawned' = spawned
                    ELSE \/ /\ spawned' = Append(spawned,
                                     Child(cmd.val,
                                           PyGet(tool.mcp_configs.v[mcp_name.v], "env",
                                                 EmptyDict).val,
                                           McpRequest(ArgQuery(tool.args))))
                            /\ tpc' = "communicating"
                            /\ returned' = returned
                         \/ /\ spawned' = spawned
                            /\ returned' = McpExcept(tool.module, Raise("FileNotFoundError"))
                            /\ tpc' = "returned"
    /\ UNCHANGED <<tool, orphans, posts>>
    /\ UNCHANGED <<gateway, augment, server, listing>>

\* The child has read its input, printed its output and closed its stdout.
McpChildPrints ==
    /\ tpc = "communicating"
    /\ spawned[Len(spawned)].state = "running"
    /\ spawned[Len(spawned)].stdout = JNull
    /\ \E out \in ChildOutputs :
         spawned' = [spawned EXCEPT ![Len(spawned)].stdout = out]
    /\ UNCHANGED <<tool, tpc, orphans, posts, returned>>
    /\ UNCHANGED <<gateway, augment, server, listing>>

\* The child exits.
McpChildExits ==
    /\ tpc = "communicating"
    /\ spawned[Len(spawned)].state = "running"
    /\ spawned[Len(spawned)].stdout # JNull
    /\ spawned' = [spawned EXCEPT ![Len(spawned)].state = "exited"]
    /\ UNCHANGED <<tool, tpc, orphans, posts, returned>>
    /\ UNCHANGED <<gateway, augment, server, listing>>

\* `await process.communicate(input=...)` returns when the child's output has
\* been read to its end and the child has exited: communicate() ends with
\* `await self.wait()`.
CommunicateReturnsAtEof(child) == child.stdout # JNull
CommunicateReturns(child) == child.stdout # JNull /\ child.state = "exited"

\* communicate() has returned; the output is parsed and the call returns.
McpCommunicate ==
    /\ tpc = "communicating"
    /\ CommunicateReturns(spawned[Len(spawned)])
    /\ LET got == McpParse(tool.module, spawned[Len(spawned)].stdout)
       IN  returned' = IF got.ok THEN got ELSE McpExcept(tool.module, got)
    /\ tpc' = "returned"
    /\ UNCHANGED <<tool, spawned, orphans, posts>>
    /\ UNCHANGED <<gateway, augment, server, listing>>

\* A Perplexity tool up to its outbound call.
PerplexityBegin ==
    /\ tpc = "called" /\ tool.module \in PerplexityModules
    /\ LET early == PerplexityChecks(tool)
       IN  IF early # JNull
           THEN /\ returned' = Ok(early)
                /\ tpc' = "returned"
                /\ posts' = posts
           ELSE /\ posts' = Append(posts, [request |-> PerplexityPost(tool),
                                           answer |-> JNull])
                /\ tpc' = "http_wait"
                /\ returned' = returned
    /\ UNCHANGED <<tool, spawned, orphans>>
    /\ UNCHANGED <<gateway, augment, server, listing>>

\* The provider has answered, or the transport failed.
PerplexityAnswer ==
    /\ tpc = "http_wait"
    /\ \E ans \in PerplexityAnswers :
         LET got == PerplexityTry(ans)
         IN  /\ posts' = [posts EXCEPT ![Len(posts)].answer = ans]
             /\ returned' = IF got.ok THEN got ELSE PerplexityExcept(got)
    /\ tpc' = "returned"
    /\ UNCHANGED <<tool, spawned, orphans>>
    /\ UNCHANGED <<gateway, augment, server, listing>>

\* The caller has the value; the call's locals are gone.  A child that is
\* still running stays behind in the process table.
ToolReturn ==
    /\ tpc = "returned"
    /\ tool' = NoTool
    /\ tpc' = "idle"
    /\ spawned' = <<>>
    /\ orphans' = orphans \cup {c \in Range(spawned) : c.state = "running"}
    /\ posts' = <<>>
    /\ returned' = NoResult
    /\ UNCHANGED <<gateway, augment, server, listing>>

ToolNext ==
    \/ ToolCall
    \/ McpBegin
    \/ McpChildPrints
    \/ McpChildExits
    \/ McpCommunicate
    \/ PerplexityBegin
    \/ PerplexityAnswer
    \/ ToolReturn

ToolSpec == ToolInit /\ [][ToolNext]_vars

(***************************************************************************)
(* The serving process: the main program (the launcher of                  *)
(* api_server_with_scalar.py starts the upstream server as a child, sleeps, *)
(* serves, and cleans up; scalar_docs.py only serves) and the requests its  *)
(* single event loop is handling.                                          *)
(***************************************************************************)
\* The module whose main program starts the upstream server.
HasLauncher(v) == v = "api_server"

\* uvicorn.run(app, ...) is reached after start_adk_server() has returned
\* (api_server_with_scalar.py), or at once (scalar_docs.py).
ReadyToServeEarly(v, l) == l \in {"start", "spawned", "slept"}
ReadyToServe(v, l) == IF HasLauncher(v) THEN l = "slept" ELSE l = "start"

\* try: uvicorn.run(...) finally: terminate and wait -- the clean-up runs
\* however the serving loop ended.
CleansUpOnReturn(how) == how = "return"
CleansUp(how) == TRUE

\* The handlers the router can pick, the ones that reach an outbound call, and
\* the ones whose outbound call is a blocking `requests` call inside
\* `async def` (all but proxy_api, which awaits httpx).
ServerHandlers(v) == {Dispatch(v, m, p).handler : m \in Methods, p \in Paths}
MakesCall(v, h) == h \in {"message_agent", "list_agents", "openapi", "proxy_api"}
BlockingCall(v, h) == h # "proxy_api"

ServerInit ==
    /\ variant \in Variants
    /\ GatewayIdle
    /\ AugmentIdle
    /\ ToolIdle
    /\ ServerIdle
    /\ ListingIdle

\* start_adk_server: subprocess.Popen(...) starts the child, or raises.
LauncherSpawn ==
    /\ lpc = "start" /\ HasLauncher(variant)
    /\ \/ /\ adk' = "running"
          /\ lpc' = "spawned"
          /\ mainlog' = Append(mainlog, "spawn")
          /\ ending' = ending
       \/ /\ lpc' = "exited"
          /\ ending' = "exception"
          /\ UNCHANGED <<adk, mainlog>>
    /\ UNCHANGED <<tasks, blocked>>
    /\ UNCHANGED <<gateway, augment, tools, listing>>

\* start_adk_server: time.sleep(3) has returned.
LauncherSleep ==
    /\ lpc = "spawned"
    /\ lpc' = "slept"
    /\ mainlog' = Append(mainlog, "sleep")
    /\ UNCHANGED <<adk, ending, tasks, blocked>>
    /\ UNCHANGED <<gateway, augment, tools, listing>>

\* uvicorn.run: the socket is bound and the event loop runs.
Serve ==
    /\ ReadyToServe(variant, lpc)
    /\ lpc' = "serving"
    /\ mainlog' = Append(mainlog, "serve")
    /\ UNCHANGED <<adk, ending, tasks, blocked>>
    /\ UNCHANGED <<gateway, augment, tools, listing>>

\* The child exits: by itself at any time, or after the terminate signal.
AdkExits ==
    /\ adk \in {"running", "signalled"}
    /\ adk' = "exited"
    /\ UNCHANGED <<lpc, ending, mainlog, tasks, blocked>>
    /\ UNCHANGED <<gateway, augment, tools, listing>>

\* The event loop accepts a request and the router picks its handler.
Accept(i) ==
    /\ lpc = "serving" /\ blocked = 0
    /\ tasks[i].st = "free"
    /\ \E h \in ServerHandlers(variant) :
         tasks' = [tasks EXCEPT ![i] = [handler |-> h, st |-> "accepted"]]
    /\ UNCHANGED <<lpc, adk, ending, mainlog, blocked>>
    /\ UNCHANGED <<gateway, augment, tools, listing>>

\* The event loop runs the handler: up to its outbound call, or to its end when
\* it makes none.  A blocking call keeps the loop's thread.
TaskRun(i) ==
    /\ lpc = "serving" /\ blocked = 0
    /\ tasks[i].st = "accepted"
    /\ IF MakesCall(variant, tasks[i].handler)
       THEN /\ tasks' = [tasks EXCEPT ![i].st = "waiting"]
            /\ blocked' = IF BlockingCall(variant, tasks[i].handler) THEN i ELSE 0
       ELSE /\ tasks' = [tasks EXCEPT ![i] = NoTask]
            /\ blocked' = blocked
    /\ UNCHANGED <<lpc, adk, ending, mainlog>>
    /\ UNCHANGED <<gateway, augment, tools, listing>>

\* The outbound call is answered: the blocking call returns, or the loop
\* resumes the awaiting handler; the handler runs to its end.
TaskAnswered(i) ==
    /\ lpc = "serving" /\ blocked \in {0, i}
    /\ tasks[i].st = "waiting"
    /\ tasks' = [tasks EXCEPT ![i] = NoTask]
    /\ blocked' = 0
    /\ UNCHANGED <<lpc, adk, ending, mainlog>>
    /\ UNCHANGED <<gateway, augment, tools, listing>>

\* uvicorn.run returns (shutdown) or raises; the loop has to be running to
\* notice the request to stop.
ServingEnds ==
    /\ lpc = "serving" /\ blocked = 0
    /\ lpc' = "stopped"
    /\ ending' \in {"return", "exception"}
    /\ tasks' = [i \in 1..MaxTasks |-> NoTask]
    /\ UNCHANGED <<adk, mainlog, blocked>>
    /\ UNCHANGED <<gateway, augment, tools, listing>>

\* finally: adk_process.terminate(), and adk_process.wait() is entered.
Cleanup ==
    /\ lpc = "stopped"
    /\ IF HasLauncher(variant) /\ CleansUp(ending)
       THEN /\ adk' = IF adk = "running" THEN "signalled" ELSE adk
            /\ mainlog' = Append(mainlog, "terminate")
            /\ lpc' = "waiting"
       ELSE /\ lpc' = "exited"
            /\ UNCHANGED <<adk, mainlog>>
    /\ UNCHANGED <<ending, tasks, blocked>>
    /\ UNCHANGED <<gateway, augment, tools, listing>>

\* adk_process.wait() returns when the child has exited; the parent exits.
WaitReturns ==
    /\ lpc = "waiting" /\ adk = "exited"
    /\ mainlog' = Append(mainlog, "wait")
    /\ lpc' = "exited"
    /\ UNCHANGED <<adk, ending, tasks, blocked>>
    /\ UNCHANGED <<gateway, augment, tools, listing>>

ServerNext ==
    \/ LauncherSpawn
    \/ LauncherSleep
    \/ Serve
    \/ AdkExits
    \/ \E i \in 1..MaxTasks : Accept(i)
    \/ \E i \in 1..MaxTasks : TaskRun(i)
    \/ \E i \in 1..MaxTasks : TaskAnswered(i)
    \/ ServingEnds
    \/ Cleanup
    \/ WaitReturns

\* The statements of the main program run one after the other: the clean-up
\* is not postponed for ever once the serving loop has ended.
ServerSpec == ServerInit /\ [][ServerNext]_vars /\ WF_vars(Cleanup)

(***************************************************************************)
(* GET /api/list-agents (list_agents of scalar_docs.py): one entry for     *)
(* each application the upstream names, with the tool providers found by    *)
(* loading and inspecting the application's agent.py.                       *)
(***************************************************************************)
\* Largest number of application names in the upstream's answer.
MaxApps == 2

AppNames == {"revsup-candidate-qualify", "helper"}
AppNameLists == SeqsUpTo(AppNames, MaxApps)

\* app_name.replace("-", " ").title()
DisplayName(app_name) ==
    CASE app_name = "revsup-candidate-qualify" -> "Revsup Candidate Qualify"
      [] app_name = "helper" -> "Helper"

\* A name as the sequence of its pieces; the strings a piece contains, and
\* piece.lower().
SubStrings(piece) ==
    CASE piece = "perplexity-ask" -> {"perplexity-ask", "perplexity", "ask"}
      [] piece = "my_mcp" -> {"my_mcp", "my", "mcp"}
      [] OTHER -> {piece}
Lower(piece) ==
    CASE piece = "Perplexity" -> "perplexity"
      [] piece = "MCPToolset" -> "mcptoolset"
      [] OTHER -> piece
NameContains(name, part) == \E i \in DOMAIN name : part \in SubStrings(name[i])
LowerContains(name, part) ==
    \E i \in DOMAIN name :
        part \in SubStrings(Lower(name[i])) \/ (part = "mcp" /\ Lower(name[i]) = "mcptoolset")

\* The tools of an agent: functions (with __name__), tool objects (with name)
\* and objects with neither, named by str(tool).
FunctionTool(n) == [attr |-> "__name__", tool_name |-> n]
ObjectTool(n) == [attr |-> "name", tool_name |-> n]
OtherTool(n) == [attr |-> "str", tool_name |-> n]
Tools ==
    [sync |-> FunctionTool(<<"search", "perplexity", "sync">>),
     web |-> ObjectTool(<<"perplexity", "web", "search">>),
     pplx |-> ObjectTool(<<"Perplexity", "Search">>),
     mcp |-> ObjectTool(<<"mcp", "my_mcp", "tool">>),
     toolset |-> OtherTool(<<"MCPToolset", "object">>),
     calc |-> FunctionTool(<<"calculator">>)]
ToolLists ==
    { <<>>,
      <<Tools.sync, Tools.web>>,
      <<Tools.calc, Tools.pplx, Tools.mcp, Tools.sync>>,
      <<Tools.mcp, Tools.toolset, Tools.mcp>>,
      <<Tools.mcp, Tools.web, Tools.mcp, Tools.pplx>>,
      <<Tools.calc>> }

\* What exec_module(agent_module) yields: an exception, a module without
\* root_agent, a root_agent without tools, a root_agent with tools.
LoadFails == [kind |-> "raises", exc |-> "FileNotFoundError"]
NoRootAgent == [kind |-> "module"]
AgentOf(toollist) ==
    [kind |-> "agent", model |-> JStr("gemini-1.5-flash"), tools |-> toollist]
AgentModules ==
    {LoadFails, NoRootAgent, [kind |-> "agent", model |-> JStr("gemini-1.5-flash")]}
    \cup {AgentOf(l) : l \in ToolLists}

\* mcp_configs of list_agents: the member "mcps" of the configuration file as
\* the sequence of its items, {} when the file could not be read.
Provider(name, entry) == [name |-> name, entry |-> entry]
ProviderLists ==
    { <<>>,
      <<Provider("perplexity-ask", JObj([command |-> JStr("npx"),
                                         description |-> JStr("Ask Perplexity")]))>>,
      <<Provider("my_mcp", JObj([command |-> JStr("node")])),
        Provider("perplexity-ask", JObj([command |-> JStr("npx")]))>>,
      <<Provider("perplexity-ask", EmptyDict),
        Provider("mcp", JObj([description |-> JStr("generic")])),
        Provider("my_mcp", JObj([command |-> JStr("node")]))>> }

\* mcp_configs.get("perplexity-ask", {}).get("description", default)
PerplexityDescription(configs) ==
    LET hit == SelectSeq(configs, LAMBDA c : c.name = "perplexity-ask")
    IN  IF hit # <<>> /\ "description" \in DOMAIN hit[1].entry.v
        THEN hit[1].entry.v["description"]
        ELSE JStr("Perplexity AI search and question answering")

\* The entry appended for a Perplexity tool, and for a provider whose name is
\* part of the tool's name.
PerplexityMcp(configs, tool_name) ==
    JObj([name |-> JStr("perplexity-ask"),
          description |-> PerplexityDescription(configs),
          tool_name |-> JList(tool_name), tool_type |-> JStr("integrated")])
ProviderMcp(c, tool_name) ==
    JObj([name |-> JStr(c.name),
          description |-> PyGet(c.entry, "description", JStr("MCP server")).val,
          command |-> PyGet(c.entry, "command", JStr("")).val,
          tool_name |-> JList(tool_name)])

\* for mcp_name, mcp_config in mcp_configs.items(): if mcp_name in tool_name
RECURSIVE ProviderMcps(_, _, _)
ProviderMcps(configs, i, tool_name) ==
    IF i > Len(configs) THEN <<>>
    ELSE (IF NameContains(tool_name, configs[i].name)
          THEN <<ProviderMcp(configs[i], tool_name)>> ELSE <<>>)
         \o ProviderMcps(configs, i + 1, tool_name)

\* for tool in agent.tools: the entries appended to agent_info["mcps"].
RECURSIVE CollectMcps(_, _, _)
CollectMcps(toollist, i, configs) ==
    IF i > Len(toollist) THEN <<>>
    ELSE LET tool_name == toollist[i].tool_name
         IN  (IF LowerContains(tool_name, "perplexity")
              THEN <<PerplexityMcp(configs, tool_name)>>
              ELSE IF LowerContains(tool_name, "mcp")
              THEN ProviderMcps(configs, 1, tool_name)
              ELSE <<>>)
             \o CollectMcps(toollist, i + 1, configs)

\* The loop over agent_info["mcps"] with `seen` and `unique_mcps`.
RECURSIVE UniqueMcpsFrom(_, _, _)
UniqueMcpsFrom(mcps, i, seen) ==
    IF i > Len(mcps) THEN <<>>
    ELSE IF mcps[i].v["name"] \notin seen
    THEN <<mcps[i]>> \o UniqueMcpsFrom(mcps, i + 1, seen \cup {mcps[i].v["name"]})
    ELSE UniqueMcpsFrom(mcps, i + 1, seen)
UniqueMcpsKeepAll(mcps) == mcps
UniqueMcps(mcps) == UniqueMcpsFrom(mcps, 1, {})

\* One pass of the loop body: agent_info for app_name, with the details of the
\* loaded module, or with "error" when loading raised.
AgentInfo(app_name, module, configs) ==
    LET base == [name |-> JStr(app_name), display_name |-> JStr(DisplayName(app_name)),
                 status |-> JStr("active"), mcps |-> JList(<<>>)]
    IN  CASE module.kind = "raises" ->
                 JObj(base @@ [error |-> FStr(<<JStr("Could not load agent details: "),
                                               JStr(module.exc)>>)])
          [] module.kind = "module" -> JObj(base)
          [] OTHER ->
                 LET info == base @@ [model |-> module.model]
                 IN  IF "tools" \in DOMAIN module /\ module.tools # <<>>
                     THEN JObj([info EXCEPT !.mcps =
                                   JList(UniqueMcps(CollectMcps(module.tools, 1, configs)))])
                     ELSE JObj(info)

AgentsInit ==
    /\ variant = "scalar_docs"
    /\ GatewayIdle
    /\ AugmentIdle
    /\ ToolIdle
    /\ ServerIdle
    /\ ListingIdle

\* list_agents up to its loop: the upstream has answered /list-apps with a list
\* of names and the configuration file was read.
ListAppsAnswered ==
    /\ lapc = "idle"
    /\ app_names' \in AppNameLists
    /\ mcp_data' \in ProviderLists
    /\ lapc' = "loop"
    /\ UNCHANGED <<loaded, agents, listed>>
    /\ UNCHANGED <<gateway, augment, tools, server>>

\* The loop body for the next application name.
LoadAgent ==
    /\ lapc = "loop"
    /\ Len(agents) < Len(app_names)
    /\ \E module \in AgentModules :
         LET agent_info == AgentInfo(app_names[Len(agents) + 1], module, mcp_data)
         IN  /\ loaded' = Append(loaded, module)
             /\ agents' = Append(agents, agent_info)
    /\ UNCHANGED <<lapc, app_names, mcp_data, listed>>
    /\ UNCHANGED <<gateway, augment, tools, server>>

\* return {"agents": agents, "total": len(agents)}
ListAgentsReturn ==
    /\ lapc = "loop"
    /\ Len(agents) = Len(app_names)
    /\ listed' = JObj([agents |-> JList(agents),
                       total |-> [t |-> "num", v |-> Len(agents)]])
    /\ lapc' = "returned"
    /\ UNCHANGED <<app_names, mcp_data, loaded, agents>>
    /\ UNCHANGED <<gateway, augment, tools, server>>

\* The response is sent; the handler's locals are gone.
ListAgentsForget ==
    /\ lapc = "returned"
    /\ lapc' = "idle"
    /\ app_names' = <<>>
    /\ mcp_data' = <<>>
    /\ loaded' = <<>>
    /\ agents' = <<>>
    /\ listed' = JNull
    /\ UNCHANGED <<gateway, augment, tools, server>>

AgentsNext ==
    \/ ListAppsAnswered
    \/ LoadAgent
    \/ ListAgentsReturn
    \/ ListAgentsForget

AgentsSpec == AgentsInit /\ [][AgentsNext]_vars

(***************************************************************************)
(* Properties of POST /message-agent.                                      *)
(***************************************************************************)
MessageAgentDone == pc = "done" /\ handler = "message_agent"
LastAnswer == upstream[Len(upstream)]
CurrentRequest == MessageAgentRequest(variant, req.body)

\* C1: the error tiers of message_agent stay distinguishable: an upstream
\* non-success status S is answered with status S and the upstream body in the
\* detail, never with 500 or 503, and a network failure is answered with 503.
\* (The third tier, 500 for any other exception, is the subject of C15.)
C1_ErrorTiers ==
    MessageAgentDone =>
        /\ (LastAnswer.net = "ok" /\ LastAnswer.status >= 400) =>
               /\ resp.status = LastAnswer.status
               /\ LastAnswer.body \in Range(resp.detail)
        /\ LastAnswer.net = "refused" => resp.status = 503

\* An event with at least one non-empty text part, and its first such text.
TextsOf(event) ==
    IF event.t = "obj" /\ "content" \in DOMAIN event.v
       /\ event.v["content"].t = "obj" /\ "parts" \in DOMAIN event.v["content"].v
    THEN LET parts == event.v["content"].v["parts"].v
         IN  SelectSeq(parts, LAMBDA p : "text" \in DOMAIN p.v /\ p.v["text"].t = "str"
                                         /\ p.v["text"].v # "")
    ELSE <<>>
HasText(event) == TextsOf(event) # <<>>
TextEvents(events) == {i \in DOMAIN events : HasText(events[i])}
FinalText(events) ==
    LET last == CHOOSE i \in TextEvents(events) : \A j \in TextEvents(events) : j <= i
    IN  TextsOf(events[last])[1].v["text"]

\* The run call was answered with status 200 and a sequence of events.
RunAnsweredEvents ==
    /\ MessageAgentDone
    /\ calls[Len(calls)].op = "run"
    /\ Len(upstream) = Len(calls)
    /\ LastAnswer.net = "ok" /\ LastAnswer.status = 200
    /\ LastAnswer.body.t = "list"

\* C2: the response is the text of the last event that carries a non-empty text
\* part, for every sequence of events and every text.
C2_LastEventText ==
    (RunAnsweredEvents /\ TextEvents(LastAnswer.body.v) # {}) =>
        /\ resp.status = 200
        /\ resp.body.v["response"] = FinalText(LastAnswer.body.v)

\* C3: when no event yields a non-empty text part, message_agent succeeds with
\* the literal "No response".
C3_NoResponsePlaceholder ==
    (RunAnsweredEvents /\ TextEvents(LastAnswer.body.v) = {}) =>
        /\ resp.status = 200
        /\ resp.body.v["response"] = JStr("No response")

\* create-session answered 200 with a body {"id": X}, X a non-empty string.
SessionAnsweredId ==
    /\ handler = "message_agent"
    /\ Len(calls) >= 1 /\ calls[1].op = "create_session"
    /\ Len(upstream) >= 1
    /\ upstream[1].net = "ok" /\ upstream[1].status = 200
    /\ upstream[1].body.t = "obj" /\ "id" \in DOMAIN upstream[1].body.v
    /\ upstream[1].body.v["id"].t = "str"
    /\ upstream[1].body.v["id"].v # ""

\* C4: without session_id, create-session {"id": X} and a run response with final
\* text T give a run call with session X and the response {T, X, agent_name}.
C4_NewSessionRoundTrip ==
    SessionAnsweredId =>
        LET X == upstream[1].body.v["id"]
        IN  /\ Len(calls) = 2 /\ calls[2].op = "run" /\ calls[2].session = X
            /\ (RunAnsweredEvents /\ TextEvents(LastAnswer.body.v) # {}) =>
                   /\ resp.status = 200
                   /\ resp.body = JObj([response |-> FinalText(LastAnswer.body.v),
                                        session_id |-> X,
                                        agent_name |-> CurrentRequest.agent_name])

\* create-session answered 200 with a body that has no session identifier field.
SessionAnsweredNoId ==
    /\ handler = "message_agent"
    /\ Len(calls) >= 1 /\ calls[1].op = "create_session"
    /\ Len(upstream) >= 1
    /\ upstream[1].net = "ok" /\ upstream[1].status = 200
    /\ upstream[1].body.t = "obj"
    /\ DOMAIN upstream[1].body.v \cap {"id", "session_id"} = {}

\* C5: a create-session body without the identifier field aborts with status 500
\* and no run call is issued.
C5_MissingSessionIdAborts ==
    SessionAnsweredNoId =>
        /\ pc = "done" /\ resp.status = 500
        /\ \A i \in DOMAIN calls : calls[i].op # "run"

\* message_agent has started on a request that carries a session identifier (a
\* non-empty string).
CarriesSession ==
    /\ handler = "message_agent" /\ pc # "routed"
    /\ CurrentRequest.session_id.t = "str"
    /\ CurrentRequest.session_id.v # ""

ProxyHandlers == {"proxy", "proxy_api"}
ProxyDone == pc = "done" /\ handler \in ProxyHandlers

\* C7: the proxy forwards method, path, query, body and the headers except Host
\* unchanged, and returns the upstream's status, body and headers unchanged.
C7_ProxyForwardsUnchanged ==
    ProxyDone =>
        /\ calls = <<[op |-> "proxy", method |-> req.method, path |-> req.path,
                      query |-> req.query, headers |-> PopHost(req.headers),
                      body |-> req.body]>>
        /\ (Len(upstream) = 1 /\ LastAnswer.net = "ok") =>
               /\ resp.status = LastAnswer.status
               /\ resp.body = LastAnswer.body
               /\ resp.headers = LastAnswer.headers

\* A JSON object describing an error: {"error": ...} or {"detail": ...}.
JsonErrorObject(r) ==
    \/ r.body.t = "obj" /\ "error" \in DOMAIN r.body.v
    \/ r.body = JNull /\ r.detail # <<>>

\* C8: while the upstream cannot be connected to, the proxy handler does not
\* raise: the caller receives a JSON error object with an error status.
C8_ProxyNetworkFailure ==
    (ProxyDone /\ net = "refused") =>
        /\ resp.exc = "none"
        /\ resp.status >= 400
        /\ JsonErrorObject(resp)

\* C9: on /agents, /message-agent, the schema endpoint and the wildcard proxy, a
\* refused upstream connection is answered with status 503.
C9_ConnectionRefusedIs503 ==
    (/\ pc = "done"
     /\ handler \in {"list_agents", "message_agent", "openapi"} \cup ProxyHandlers
     /\ Len(upstream) >= 1 /\ LastAnswer.net = "refused") =>
        /\ resp.exc = "none"
        /\ resp.status = 503

\* The reserved routes the gateways declare, with their dedicated handlers.
ReservedRoutes(v) ==
    IF v = "scalar_docs"
    THEN { [method |-> "GET", path |-> <<"scalar">>, handler |-> "scalar_html"],
           [method |-> "GET", path |-> <<"openapi-proxy.json">>, handler |-> "openapi"],
           [method |-> "GET", path |-> <<"api", "agents">>, handler |-> "list_agents"],
           [method |-> "POST", path |-> <<"api", "message-agent">>,
            handler |-> "message_agent"] }
    ELSE { [method |-> "GET", path |-> <<"scalar">>, handler |-> "scalar_html"],
           [method |-> "GET", path |-> <<"openapi.json">>, handler |-> "openapi"],
           [method |-> "GET", path |-> <<"agents">>, handler |-> "list_agents"],
           [method |-> "POST", path |-> <<"message-agent">>, handler |-> "message_agent"] }

\* C10: a request to a reserved route is never served by the wildcard proxy
\* route, which handles only the requests that match no reserved route.
C10_ReservedRoutesDedicated ==
    pc # "idle" =>
        \A r \in ReservedRoutes(variant) :
            (req.method = r.method /\ req.path = r.path) => handler \notin ProxyHandlers

\* The upstream answered the forwarded request with a 3xx status.
RedirectAnswered ==
    /\ handler \in ProxyHandlers
    /\ Len(upstream) >= 1
    /\ upstream[1].net = "ok"
    /\ upstream[1].status \in 300..399

\* C11: the proxy never follows a redirect: after a 3xx answer to the forwarded
\* request no further upstream request is issued, and the caller receives that
\* status and the answer's Location header as they came.
C11_RedirectNotFollowed ==
    RedirectAnswered =>
        /\ Len(calls) = 1 /\ Len(upstream) = 1
        /\ pc = "done"
        /\ resp.status = upstream[1].status
        /\ \A h \in upstream[1].headers : h[1] = "location" => h \in resp.headers
        /\ \A h \in resp.headers : h[1] = "location" => h \in upstream[1].headers

\* C11 is exercised: a 302 with a Location header was passed to the caller.
C11_Witness ==
    /\ RedirectAnswered /\ pc = "done"
    /\ resp.status = 302
    /\ <<"location", "/elsewhere">> \in resp.headers

\* The schema request ended after a failed fetch, or after the upstream served a
\* document without "info" or without "paths".
SchemaFetchFailed ==
    /\ pc = "done" /\ handler = "openapi"
    /\ Len(upstream) = 1
    /\ \/ LastAnswer.net = "refused"
       \/ /\ LastAnswer.net = "ok"
          /\ LastAnswer.body.t = "obj"
          /\ ~({"info", "paths"} \subseteq DOMAIN LastAnswer.body.v)

\* C12: the schema endpoint lets no exception escape: a failed fetch and a
\* document lacking an indexed key are answered with an error payload and the
\* status 500.
C12_SchemaErrorsReported ==
    SchemaFetchFailed =>
        /\ resp.exc = "none"
        /\ resp.body.t = "obj" /\ "error" \in DOMAIN resp.body.v
        /\ resp.status = 500

ListAgentsDone == pc = "done" /\ handler = "list_agents" /\ Len(upstream) = 1

\* C14: GET /agents returns the upstream JSON body on any 2xx status, answers a
\* non-2xx status S with status S and the upstream body in the detail, and
\* answers a failed connection with 503.
C14_ListAgentsStatuses ==
    ListAgentsDone =>
        /\ (LastAnswer.net = "ok" /\ LastAnswer.status \in 200..299
                /\ LastAnswer.body # NotJson) =>
               /\ resp.status = 200
               /\ resp.body = LastAnswer.body
        /\ (LastAnswer.net = "ok" /\ LastAnswer.status \notin 200..299) =>
               /\ resp.status = LastAnswer.status
               /\ LastAnswer.body \in Range(resp.detail)
        /\ LastAnswer.net = "refused" =>
               /\ resp.exc = "none"
               /\ resp.status = 503

\* The last upstream call succeeded at the transport and status level with a
\* malformed payload: a body that is not JSON, or a create-session body that
\* is a JSON array.
MalformedPayload ==
    /\ pc = "done" /\ handler \in {"list_agents", "message_agent"}
    /\ Len(upstream) = Len(calls)
    /\ LastAnswer.net = "ok" /\ LastAnswer.status = 200
    /\ \/ LastAnswer.body = NotJson
       \/ calls[Len(calls)].op = "create_session" /\ LastAnswer.body.t = "list"

\* C15: a malformed upstream payload is reported by /agents and /message-agent
\* as a generic internal error, status 500: never as 503 and never as an
\* unhandled exception.
C15_MalformedPayloadIs500 ==
    MalformedPayload =>
        /\ resp.exc = "none"
        /\ resp.status = 500

(***************************************************************************)
(* Properties of the schema augmentation (specification AugmentSpec).      *)
(***************************************************************************)
\* The document is the output of an augmentation.
Augmented == passes >= 1 /\ doc.ok

\* The paths and the component schemas each gateway injects.
InjectedPaths(v) ==
    IF v = "scalar_docs" THEN {"/agents", "/message-agent", "/list-agents"}
    ELSE {"/agents", "/message-agent"}
InjectedSchemas == {"MessageAgentRequest", "MessageAgentResponse"}

HasPaths(d, ps) == ps \subseteq DOMAIN d.v["paths"].v
HasSchemas(d) == InjectedSchemas \subseteq DOMAIN d.v["components"].v["schemas"].v

\* C13 as stated: an augmented document has the paths /agents, /message-agent
\* and /list-agents and the two component schemas, and augmenting it again
\* yields the same document, in both gateways.
C13_IdempotentAllPaths ==
    Augmented =>
        /\ HasPaths(doc.val, {"/agents", "/message-agent", "/list-agents"})
        /\ HasSchemas(doc.val)
        /\ Augment(variant, doc.val) = doc

\* C13 amended: an augmented document has the paths its gateway injects and the
\* two component schemas, and every further pass of the augmentation leaves it
\* as it is.
C13_IdempotentOnInjected ==
    /\ [](Augmented => HasPaths(doc.val, InjectedPaths(variant)) /\ HasSchemas(doc.val))
    /\ [][Augmented => doc' = doc]_vars

\* C13 is exercised: get_openapi's augmentation was applied to its own output,
\* a document that had a description and a path /agents before.
C13_Witness ==
    /\ variant = "api_server" /\ passes >= 2 /\ doc.ok
    /\ doc.val.v["info"].v["description"] = ExtensionDescription
    /\ "/list-apps" \in DOMAIN doc.val.v["paths"].v

\* The path entries and the component schemas of a document.
PathsOf(d) == IF "paths" \in DOMAIN d.v THEN d.v["paths"].v ELSE <<>>
SchemasOf(d) ==
    IF "components" \in DOMAIN d.v /\ "schemas" \in DOMAIN d.v["components"].v
    THEN d.v["components"].v["schemas"].v
    ELSE <<>>

\* One pass of the augmentation has returned a document.
AugmentStep == doc.ok /\ doc'.ok /\ passes' = passes + 1

\* The entries the augmentation does not name are in the result as they were.
KeepsOtherPaths(v, before, after) ==
    \A p \in DOMAIN PathsOf(before) \ (InjectedPaths(v) \cup {"/list-apps"}) :
        p \in DOMAIN PathsOf(after) /\ PathsOf(after)[p] = PathsOf(before)[p]
KeepsOtherSchemas(before, after) ==
    \A n \in DOMAIN SchemasOf(before) \ InjectedSchemas :
        n \in DOMAIN SchemasOf(after) /\ SchemasOf(after)[n] = SchemasOf(before)[n]

HasListApps(d) == "/list-apps" \in DOMAIN PathsOf(d)
ListAppsDeprecated(d) ==
    /\ HasListApps(d)
    /\ "get" \in DOMAIN PathsOf(d)["/list-apps"].v
    /\ "deprecated" \in DOMAIN PathsOf(d)["/list-apps"].v["get"].v
    /\ PathsOf(d)["/list-apps"].v["get"].v["deprecated"] = JTrue

McpCalled == tool.module \in McpModules
McpName == ArgMcpName(tool.args)
Contains(fstr, piece) == fstr.t = "fstr" /\ piece \in Range(fstr.v)
ErrorDict(x) == x.t = "obj" /\ "error" \in DOMAIN x.v

\* MCPTool is called with a provider name that is not in its configuration.
UnknownProvider == McpCalled /\ McpName.v \notin DOMAIN tool.mcp_configs.v

\* C16: for an unknown provider name the adapter spawns no child process and
\* returns an error value that contains the name.
C16_UnknownProviderNoSpawn ==
    UnknownProvider =>
        /\ spawned = <<>>
        /\ tpc \in {"called", "returned"}
        /\ tpc = "returned" =>
               /\ returned.ok
               /\ ErrorDict(returned.val)
               /\ Contains(returned.val.v["error"], McpName)

\* C16 is exercised: a configuration with a provider, a call naming another.
C16_Witness ==
    /\ UnknownProvider /\ tpc = "returned"
    /\ McpName = JStr("unknown")
    /\ "perplexity-ask" \in DOMAIN tool.mcp_configs.v

\* The configuration and tool errors: an unknown provider, a provider entry
\* without command or args, a command that was not spawned, child output that
\* does not parse, no API key for the direct-HTTP adapter.
MissingCommandOrArgs ==
    /\ McpCalled /\ ~UnknownProvider
    /\ ~({"command", "args"} \subseteq DOMAIN tool.mcp_configs.v[McpName.v].v)
NotSpawned == McpCalled /\ ~UnknownProvider /\ ~MissingCommandOrArgs /\ spawned = <<>>
Unparsable == McpCalled /\ spawned # <<>> /\ spawned[1].stdout \in {EmptyOutput, NotJson}
NoApiKey ==
    /\ tool.module = "perplexity_tool"
    /\ Truthy(ArgQuery(tool.args)) /\ ~Truthy(tool.api_key)
ToolErrorCase ==
    /\ tpc = "returned"
    /\ UnknownProvider \/ MissingCommandOrArgs \/ NotSpawned \/ Unparsable \/ NoApiKey

\* A value a caller can read as an error: {"error": ...} or an error string.
ErrorValue(x) ==
    \/ ErrorDict(x)
    \/ x.t = "fstr" /\ x.v[1] \in {JStr("MCP execution error: "), JStr("Error searching: ")}
    \/ x \in {JStr("Error: No Perplexity API key configured"),
               JStr("Error: No search query provided")}

\* C17: on every configuration or tool error the adapter returns an error value
\* to its caller and raises nothing.
C17_ToolErrorsReturned ==
    ToolErrorCase =>
        /\ returned.ok
        /\ ErrorValue(returned.val)

\* C18: when the child's output is empty or is not JSON, the adapter raises
\* nothing and returns an error value of the shape of the unknown-provider
\* result, {"error": ...}.
C18_UnparsableOutputIsError ==
    (tpc = "returned" /\ Unparsable) =>
        /\ returned.ok
        /\ ErrorDict(returned.val)

\* The child answered with an object without "error" whose result, if any, is an
\* object and whose result.content, if any, is a list of objects.
ChildResponse == spawned[1].stdout
ContentOf(response) ==
    IF "result" \in DOMAIN response.v /\ "content" \in DOMAIN response.v["result"].v
    THEN response.v["result"].v["content"].v
    ELSE <<>>
ParsedWithoutError ==
    /\ tpc = "returned" /\ McpCalled /\ spawned # <<>>
    /\ ChildResponse.t = "obj" /\ "error" \notin DOMAIN ChildResponse.v
    /\ "result" \in DOMAIN ChildResponse.v =>
           /\ ChildResponse.v["result"].t = "obj"
           /\ "content" \in DOMAIN ChildResponse.v["result"].v =>
                  /\ ChildResponse.v["result"].v["content"].t = "list"
                  /\ \A i \in DOMAIN ContentOf(ChildResponse) :
                         ContentOf(ChildResponse)[i].t = "obj"
TextItems(content) == SelectSeq(content, LAMBDA item : "text" \in DOMAIN item.v)
ReturnedText ==
    IF tool.module = "mcp_tools" THEN returned.val.v["response"] ELSE returned.val

\* C19: the adapter returns the text of the first item of result.content that
\* carries text, and the sentinel when there is no such item.
C19_FirstTextualItem ==
    ParsedWithoutError =>
        /\ returned.ok
        /\ ReturnedText =
               IF TextItems(ContentOf(ChildResponse)) # <<>>
               THEN TextItems(ContentOf(ChildResponse))[1].v["text"]
               ELSE NoResponseFromMcp

\* The provider answered the outbound call with a status other than 200.
ProviderAnsweredError ==
    /\ tpc = "returned" /\ tool.module \in PerplexityModules
    /\ posts # <<>>
    /\ posts[1].answer.net = "ok" /\ posts[1].answer.status # 200

\* C20: on a status other than 200 the direct-HTTP adapter, blocking or
\* cooperative, raises nothing and returns a string that contains the status
\* code and the text of the response body.
C20_ErrorStatusInString ==
    ProviderAnsweredError =>
        /\ returned.ok
        /\ IsStr(returned.val)
        /\ Contains(returned.val, JStr(ToString(posts[1].answer.status)))
        /\ Contains(returned.val, posts[1].answer.body)

\* C20 is exercised: the cooperative adapter was answered 429 "rate limited".
C20_Witness ==
    /\ ProviderAnsweredError
    /\ tool.module = "perplexity_tool"
    /\ posts[1].answer = Answer(429, JStr("rate limited"))

\* What a direct-HTTP tool returns to its caller when the provider answers its
\* outbound call, if it makes one, with `ans`.
PerplexityOutcome(t, ans) ==
    LET early == PerplexityChecks(t)
        got == PerplexityTry(ans)
    IN  IF early # JNull THEN Ok(early)
        ELSE IF got.ok THEN got ELSE PerplexityExcept(got)

\* The tool of perplexity_tool.py with the same entry point, constructed under
\* the same configuration and called with the same arguments.
Counterpart(t) ==
    [t EXCEPT !.module = "perplexity_tool",
              !.api_key = GetApiKey("perplexity_tool", t.config.file, t.config.envkey)]

\* C21: for the same query, configuration and provider outcome, a tool of
\* perplexity_tool_sync.py makes an outbound call exactly when its counterpart
\* of perplexity_tool.py makes one, and returns the same value.  Stated for the
\* configurations that hold an API key, the ones in which the counterpart can
\* reach its outbound call.
C21_VariantsInterchangeable ==
    (/\ tpc = "returned" /\ tool.module = "perplexity_tool_sync"
     /\ Truthy(Counterpart(tool).api_key)) =>
        /\ (posts # <<>>) <=> (PerplexityChecks(Counterpart(tool)) = JNull)
        /\ posts # <<>> =>
               returned = PerplexityOutcome(Counterpart(tool), posts[1].answer)
        /\ posts = <<>> => returned = Ok(PerplexityChecks(Counterpart(tool)))


\* C22: when an invocation of the subprocess adapter returns, every child it
\* spawned has exited; no child is left running behind an invocation, and an
\* invocation communicates only with the one child it spawned for its own
\* request.
C22_ChildTerminatedOnReturn ==
    /\ tpc = "returned" => \A i \in DOMAIN spawned : spawned[i].state = "exited"
    /\ orphans = {}
    /\ tpc = "communicating" =>
           /\ Len(spawned) = 1
           /\ spawned[1].stdin = McpRequest(ArgQuery(tool.args))

\* C22 is exercised on an error path: the child printed something that is not
\* JSON, and the invocation returns the error.
C22_Witness ==
    /\ tpc = "returned" /\ McpCalled
    /\ spawned # <<>> /\ spawned[1].stdout = NotJson
    /\ ErrorValue(returned.val)

\* The provider answered the outbound call with status 200 and a JSON object.
ProviderAnswered200 ==
    /\ tpc = "returned" /\ tool.module \in PerplexityModules
    /\ posts # <<>>
    /\ posts[1].answer.net = "ok" /\ posts[1].answer.status = 200
    /\ posts[1].answer.body.t = "obj"

\* choices[0].message.content of a body, and the default where a member on the
\* way, or the first choice, is missing.
NestedContent(body) ==
    LET choices == IF "choices" \in DOMAIN body.v THEN body.v["choices"].v
                   ELSE <<EmptyDict>>
        first == IF choices = <<>> THEN EmptyDict ELSE choices[1]
        message == IF "message" \in DOMAIN first.v THEN first.v["message"] ELSE EmptyDict
    IN  IF "content" \in DOMAIN message.v THEN message.v["content"]
        ELSE NoResponseFromPerplexity

\* C26: for every JSON object answered with status 200, also one whose choices
\* list is empty, the direct-HTTP adapter returns the banner "Search Results:"
\* followed by choices[0].message.content, or by the default.
C26_BannerOnEvery200 ==
    ProviderAnswered200 =>
        /\ returned.ok
        /\ returned.val =
               FStr(<<JStr("Search Results:"), NestedContent(posts[1].answer.body)>>)

(***************************************************************************)
(* Properties of the gateway's upstream calls (specification Spec).        *)
(***************************************************************************)
CallsOf(op) == {i \in DOMAIN calls : calls[i].op = op}
SessionSucceeded ==
    /\ Len(upstream) >= 1
    /\ upstream[1].net = "ok" /\ upstream[1].status = 200
SessionFailed ==
    /\ Len(upstream) >= 1
    /\ upstream[1].net = "refused" \/ upstream[1].status # 200

\* C28: one /message-agent request makes at most one create-session call and at
\* most one run call; the run call is the first call of a request that carries
\* a session, or follows a create-session call that was answered 200; after a
\* failed create-session call there is no run call.
C28_AtMostOneSessionAndRun ==
    handler = "message_agent" =>
        /\ Cardinality(CallsOf("create_session")) <= 1
        /\ Cardinality(CallsOf("run")) <= 1
        /\ Len(calls) <= 2 /\ Len(upstream) <= Len(calls)
        /\ \A i \in CallsOf("run") :
               \/ i = 1 /\ Truthy(CurrentRequest.session_id)
               \/ i = 2 /\ calls[1].op = "create_session" /\ SessionSucceeded
        /\ (calls # <<>> /\ calls[1].op = "create_session" /\ SessionFailed) =>
               CallsOf("run") = {}

\* C28 is exercised: a session was created and the run call was answered.
C28_Witness ==
    /\ handler = "message_agent" /\ pc = "done"
    /\ Len(calls) = 2 /\ Len(upstream) = 2
    /\ calls[1].op = "create_session" /\ calls[2].op = "run"

\* The first upstream call of a handler as a function of the inbound request
\* alone: None when the handler makes no call.
FirstCallFor(v, h, r) ==
    CASE h \in {"proxy", "proxy_api"} ->
             IF BoundRequest(v, r).ok /\ BoundRequest(v, r).val.t = "Request"
             THEN [op |-> "proxy", method |-> r.method,
                   path |-> Dispatch(v, r.method, r.path).path, query |-> r.query,
                   headers |-> {x \in r.headers : x[1] # "host"}, body |-> r.body]
             ELSE JNull
      [] h = "message_agent" ->
             LET m == MessageAgentRequest(v, r.body)
             IN  [op |-> IF Truthy(m.session_id) THEN "run" ELSE "create_session",
                  app |-> m.agent_name, user |-> m.user_id,
                  session |-> IF Truthy(m.session_id) THEN m.session_id ELSE JNull,
                  message |-> IF Truthy(m.session_id) THEN m.message ELSE JNull]
      [] h = "list_agents" -> [op |-> "list_agents"]
      [] h = "openapi" -> [op |-> "openapi"]
      [] OTHER -> JNull

\* C24: whatever requests were answered before, the upstream calls of a request
\* are determined by that request: the first by the inbound request alone, a
\* second one by the inbound request and the upstream's answer to the first.
C24_ProxyStateless ==
    /\ (pc \in {"idle", "routed"}) => calls = <<>>
    /\ (pc \notin {"idle", "routed"}) =>
           IF FirstCallFor(variant, handler, req) = JNull
           THEN calls = <<>>
           ELSE /\ calls # <<>>
                /\ calls[1] = FirstCallFor(variant, handler, req)
    /\ Len(calls) >= 2 =>
           /\ handler = "message_agent" /\ Len(calls) = 2
           /\ calls[2] = [op |-> "run", app |-> calls[1].app, user |-> calls[1].user,
                          session |-> session_id,
                          message |-> MessageAgentRequest(variant, req.body).message]
           /\ upstream[1].body.t = "obj" =>
                  session_id = PyGet(upstream[1].body, SessionField(variant), JNull).val

\* C24 is exercised: a request is forwarded by a process that has answered
\* another request before.
C24_Witness ==
    /\ served > 0
    /\ handler = "proxy_api" /\ pc = "done"
    /\ calls # <<>>

(***************************************************************************)
(* Properties of the serving process (specification ServerSpec).           *)
(***************************************************************************)
Launched == "spawn" \in Range(mainlog)
LastTwo(q) == IF Len(q) < 2 THEN q ELSE SubSeq(q, Len(q) - 1, Len(q))

\* C23: once the launcher has started the child, the end of the serving loop,
\* by return or by exception, leads to the terminate signal and the wait, and
\* the parent has exited only after both, with the child gone.
C23_CleanupAfterServing ==
    /\ []((lpc = "exited" /\ Launched) =>
             /\ LastTwo(mainlog) = <<"terminate", "wait">>
             /\ adk = "exited")
    /\ []((lpc = "waiting") => adk \in {"signalled", "exited"})
    /\ ((lpc = "stopped" /\ Launched) ~> (lpc \in {"waiting", "exited"}))

\* C23 is exercised: the serving loop ended by an exception and the parent has
\* exited.
C23_Witness ==
    /\ lpc = "exited" /\ Launched
    /\ "serve" \in Range(mainlog)
    /\ ending = "exception"

\* C29: a process started by the launcher handles a request only after the
\* child was spawned and the startup sleep has returned.
C29_ServesAfterStartupWait ==
    (HasLauncher(variant) /\ (lpc = "serving" \/ \E i \in 1..MaxTasks : tasks[i] # NoTask)) =>
        /\ Len(mainlog) >= 3
        /\ SubSeq(mainlog, 1, 3) = <<"spawn", "sleep", "serve">>
        /\ adk # "none"

\* C29 is exercised: a request is being handled in the launcher's process.
C29_Witness ==
    /\ HasLauncher(variant)
    /\ \E i \in 1..MaxTasks : tasks[i].st = "waiting"

\* C25: while a handler waits for its outbound call, the event loop is free to
\* accept and to complete other requests.
C25_WaitingDoesNotBlock ==
    \A i \in 1..MaxTasks : tasks[i].st = "waiting" => blocked = 0

(***************************************************************************)
(* Properties of GET /api/list-agents (specification AgentsSpec).          *)
(***************************************************************************)
Listed == lapc = "returned"
EntryOf(i) == listed.v["agents"].v[i]
McpNames(entry) == [j \in DOMAIN entry.v["mcps"].v |-> entry.v["mcps"].v[j].v["name"]]

\* The elements of q whose name does not occur earlier in q, in the order of q.
RECURSIVE FirstByName(_, _)
FirstByName(q, i) ==
    IF i > Len(q) THEN <<>>
    ELSE (IF \A j \in 1..(i - 1) : q[j].v["name"] # q[i].v["name"] THEN <<q[i]>> ELSE <<>>)
         \o FirstByName(q, i + 1)

\* What the tool loop appended for the i-th application before duplicates
\* were removed.
AppendedFor(i) ==
    IF loaded[i].kind = "agent" /\ "tools" \in DOMAIN loaded[i]
    THEN CollectMcps(loaded[i].tools, 1, mcp_data)
    ELSE <<>>

====
